---- MODULE Spec2Model ----
(***************************************************************************)
(* State-machine model of the raspe harvest engine: one call of raspar.    *)
(* On an HTTP scraper (src/src/raspe/base_scraper.py) raspar validates the *)
(* parameters and runs one harvest, or one harvest per value of a          *)
(* list-valued parameter.  In a harvest the page-count probe goes through  *)
(* _request_with_retry, the effective page range is computed by            *)
(* _set_paginas and the fetch loop of _download_data requests the pages    *)
(* one by one.  On a browser scraper (selenium_scraper.py,                 *)
(* playwright_scraper.py) raspar drives a browser through the result       *)
(* pages.  The remote source is the environment: every request is answered *)
(* by a response or a failure picked nondeterministically.                 *)
(***************************************************************************)
EXTENDS Integers, Sequences, FiniteSets, TLC

VARIABLES
    scraper,      \* which concrete scraper (its _find_n_pags) is harvesting
    max_retries,  \* self.max_retries
    max_pages,    \* self._max_pages of a browser scraper
    debug,        \* self.debug: the session directories are kept
    kwargs,       \* the keyword arguments of the call, "paginas" apart
    pc,           \* position of the raspar call
    it,           \* number of harvests of the call that have ended
    dfs,          \* the rows of the harvests that have ended
    paginas,      \* kwargs.get("paginas") as read by _download_data
    attempt,      \* loop variable of _request_with_retry
    requests,     \* number of _set_r calls issued by _request_with_retry
    sleeps,       \* the waits _request_with_retry slept, in order
    responses,    \* the responses _request_with_retry received, in order
    outcome,      \* how _request_with_retry ended
    contagem,     \* what _find_n_pags returned
    n_pags,       \* what _get_n_pags returned
    total_pages,  \* list(paginas): the effective page list
    idx,          \* number of pages of total_pages already handled
    dir_exists,   \* the session's download_dir exists
    dirs,         \* the harvests of the call whose session directory exists
    stamped,      \* the harvest whose directory is named by the second the
                  \* clock shows, 0 when no directory bears that name
    driver,       \* the browser of a browser scraper: "closed" or "open"
    files,        \* the files of download_dir
    trace,        \* the fetch loop's pacing sleeps and requests, in order
    last,         \* what the latest fetch-loop iteration got from _set_r
    result,       \* how raspar ended
    source,       \* the expression a caller of expand wrote down
    expansions,   \* the calls of expand made so far: argument and outcome
    df_copy,      \* the table passed to remove_duplicates
    novo_df,      \* what remove_duplicates returned
    arquivos,     \* the page files of a session directory as glob lists them
    parsing,      \* the progress of a call of _parse_data
    session,      \* the handles of a browser scraper and what they refer to
    espera,       \* the progress of _aguardar_cloudflare
    nyt           \* the progress of ScraperNYT._download_data

vars == <<scraper, max_retries, max_pages, debug, kwargs, pc, it, dfs,
          paginas, attempt, requests, sleeps, responses, outcome, contagem,
          n_pags, total_pages, idx, dir_exists, dirs, stamped, driver, files,
          trace, last, result, source, expansions, df_copy, novo_df,
          arquivos, parsing, session, espera, nyt>>

\* the attributes of the scraper and the arguments of the call
cfg == <<scraper, max_retries, max_pages, debug, kwargs>>

\* the progress of the raspar call
call == <<pc, it, dfs, paginas, attempt, requests, sleeps, responses, outcome,
          contagem, n_pags, total_pages, idx, dir_exists, dirs, stamped,
          driver, files, trace, last, result>>

\* the arguments and outcomes of the calls of the functions of utils.py and
\* of the calls of single methods of a scraper
util == <<source, expansions, df_copy, novo_df, arquivos, parsing>>

\* the browser session of a browser scraper and the cursor harvest
life == <<session, espera, nyt>>

-----------------------------------------------------------------------------
(* Bounds of the exploration.                                              *)

\* largest attempt budget (self.max_retries) explored
MaxBudget == 3

\* longest list of values given for one parameter
MaxList == 2

\* largest number of terms of a well-formed expression given to expand
MaxTerms == 3

\* largest number of tokens of an arbitrary expression given to expand
MaxTokens == 4

\* largest number of rows of a table given to remove_duplicates
MaxRows == 3

\* largest number of page files in a session directory given to _parse_data
MaxFiles == 3

\* the seconds one iteration of the wait for the challenge may take
MaxTick == 2

-----------------------------------------------------------------------------
(* Program constants.                                                      *)

DefaultMaxRetries == 3
SleepTime == 2
CamaraPageSize == 10
CnjPageSize == 5
FolhaPageSize == 25
MaxPagesDefault == 100
PageLoadWait == 2
CloudflareTimeout == 60
CookieSettle == 2
ResultsPerPage == 10

-----------------------------------------------------------------------------
(* Python values.                                                          *)

\* an optional int: None, or an int
NoneInt == [isNone |-> TRUE, n |-> 0]

SomeInt(n) == [isNone |-> FALSE, n |-> n]

\* a header value: absent (headers.get gives None), or a string, kept as the
\* sequence of its characters
NoHeader == [present |-> FALSE, chars |-> <<>>]

Header(s) == [present |-> TRUE, chars |-> s]

DigitChars == {"0", "1", "2", "3", "4", "5", "6", "7", "8", "9"}

DigitVal(c) ==
    CASE c = "0" -> 0 [] c = "1" -> 1 [] c = "2" -> 2 [] c = "3" -> 3
      [] c = "4" -> 4 [] c = "5" -> 5 [] c = "6" -> 6 [] c = "7" -> 7
      [] c = "8" -> 8 [] c = "9" -> 9

\* int(s) succeeds: s is a non-empty run of decimal digits
IsIntLiteral(s) == Len(s) > 0 /\ \A i \in 1..Len(s) : s[i] \in DigitChars

RECURSIVE DigitsValue(_)
DigitsValue(s) ==
    IF Len(s) = 0 THEN 0
    ELSE 10 * DigitsValue(SubSeq(s, 1, Len(s) - 1)) + DigitVal(s[Len(s)])

\* int(s): the value, or ValueError
PyInt(s) ==
    IF IsIntLiteral(s) THEN [ok |-> TRUE, n |-> DigitsValue(s)]
    ELSE [ok |-> FALSE, n |-> 0]

\* truth value of headers.get('Retry-After'): None and '' are falsy
Truthy(h) == h.present /\ Len(h.chars) > 0

RECURSIVE Pow2(_)
Pow2(k) == IF k <= 0 THEN 1 ELSE 2 * Pow2(k - 1)

\* len(range(start, stop, step))
RangeLen(start, stop, step) ==
    IF step > 0
    THEN IF start < stop THEN (stop - start + step - 1) \div step ELSE 0
    ELSE IF start > stop THEN (start - stop - step - 1) \div (-step) ELSE 0

\* mutant of PyRange: the index never advances
PyRangeStuck(start, stop, step) ==
    [i \in 1..RangeLen(start, stop, step) |-> start]

\* list(range(start, stop, step))
PyRange(start, stop, step) ==
    [i \in 1..RangeLen(start, stop, step) |-> start + (i - 1) * step]

\* mutant of Min: the first argument
MinFirst(a, b) == a

\* min(a, b)
Min(a, b) == IF a < b THEN a ELSE b

\* a value given for a parameter: a str, kept as the sequence of its
\* characters, or a non-negative int
StrValue(s) == [isInt |-> FALSE, n |-> 0, chars |-> s]

IntValue(n) == [isInt |-> TRUE, n |-> n, chars |-> <<>>]

DigitChar(d) ==
    CASE d = 0 -> "0" [] d = 1 -> "1" [] d = 2 -> "2" [] d = 3 -> "3"
      [] d = 4 -> "4" [] d = 5 -> "5" [] d = 6 -> "6" [] d = 7 -> "7"
      [] d = 8 -> "8" [] d = 9 -> "9"

RECURSIVE IntChars(_)
IntChars(n) ==
    IF n < 10 THEN <<DigitChar(n)>>
    ELSE IntChars(n \div 10) \o <<DigitChar(n % 10)>>

\* str(v)
PyStr(v) == IF v.isInt THEN IntChars(v.n) ELSE v.chars

\* repr(v)
PyRepr(v) == IF v.isInt THEN IntChars(v.n) ELSE <<"'">> \o v.chars \o <<"'">>

RECURSIVE JoinRepr(_)
JoinRepr(vs) ==
    IF Len(vs) = 0 THEN <<>>
    ELSE IF Len(vs) = 1 THEN PyRepr(vs[1])
    ELSE PyRepr(vs[1]) \o <<",", " ">> \o JoinRepr(Tail(vs))

\* str(vs) for a list vs
PyStrList(vs) == <<"[">> \o JoinRepr(vs) \o <<"]">>

\* s.strip(), for the blank " "
RECURSIVE Strip(_)
Strip(s) ==
    IF Len(s) > 0 /\ s[1] = " " THEN Strip(Tail(s))
    ELSE IF Len(s) > 0 /\ s[Len(s)] = " "
    THEN Strip(SubSeq(s, 1, Len(s) - 1))
    ELSE s

-----------------------------------------------------------------------------
(* The keyword arguments of raspar and their validation.                   *)

\* one keyword argument: a single value, or a list of values
Param(k, v) == [name |-> k, list |-> FALSE, vals |-> <<v>>]

ListParam(k, vs) == [name |-> k, list |-> TRUE, vals |-> vs]

\* str(kwargs[k]) for the argument p
StrOf(p) == IF p.list THEN PyStrList(p.vals) ELSE PyStr(p.vals[1])

HasKey(kw, k) == \E i \in 1..Len(kw) : kw[i].name = k

Lookup(kw, k) == kw[CHOOSE i \in 1..Len(kw) : kw[i].name = k]

AllDigits(s, a, b) == \A i \in a..b : s[i] \in DigitChars

Num(s, a, b) == DigitsValue(SubSeq(s, a, b))

IsLeap(y) == (y % 4 = 0 /\ y % 100 # 0) \/ y % 400 = 0

DaysIn(y, m) ==
    IF m = 2 THEN (IF IsLeap(y) THEN 29 ELSE 28)
    ELSE IF m \in {4, 6, 9, 11} THEN 30 ELSE 31

NoDate == [ok |-> TRUE, none |-> TRUE, ymd |-> <<0, 0, 0>>]

BadDate == [ok |-> FALSE, none |-> TRUE, ymd |-> <<0, 0, 0>>]

\* datetime.strptime on a text of the right shape: the date, or ValueError
\* turned into ValidationError
StrpTime(y, m, d) ==
    IF y >= 1 /\ m \in 1..12 /\ d \in 1..DaysIn(y, m)
    THEN [ok |-> TRUE, none |-> FALSE, ymd |-> <<y, m, d>>]
    ELSE BadDate

\* validar_data on the text s0 = str(data): None for a blank text, the date
\* for YYYY-MM-DD, DD/MM/YYYY or YYYYMMDD, ValidationError otherwise
ValidarData(s0) ==
    LET s == Strip(s0)
    IN IF Len(s) = 0 THEN NoDate
       ELSE IF /\ Len(s) = 10
               /\ AllDigits(s, 1, 4) /\ s[5] = "-"
               /\ AllDigits(s, 6, 7) /\ s[8] = "-"
               /\ AllDigits(s, 9, 10)
       THEN StrpTime(Num(s, 1, 4), Num(s, 6, 7), Num(s, 9, 10))
       ELSE IF /\ Len(s) = 10
               /\ AllDigits(s, 1, 2) /\ s[3] = "/"
               /\ AllDigits(s, 4, 5) /\ s[6] = "/"
               /\ AllDigits(s, 7, 10)
       THEN StrpTime(Num(s, 7, 10), Num(s, 4, 5), Num(s, 1, 2))
       ELSE IF Len(s) = 8 /\ AllDigits(s, 1, 8)
       THEN StrpTime(Num(s, 1, 4), Num(s, 5, 6), Num(s, 7, 8))
       ELSE BadDate

\* a is a later date than b
After(a, b) ==
    \/ a[1] > b[1]
    \/ a[1] = b[1] /\ a[2] > b[2]
    \/ a[1] = b[1] /\ a[2] = b[2] /\ a[3] > b[3]

\* %m and %d: two digits
TwoDigits(n) == <<DigitChar(n \div 10), DigitChar(n % 10)>>

\* parsed.strftime("%Y-%m-%d"): the C library writes the year of %Y without
\* leading zeros, 999 for the year 0999
Strftime(ymd) ==
    IntChars(ymd[1]) \o <<"-">> \o TwoDigits(ymd[2]) \o <<"-">> \o TwoDigits(ymd[3])

\* the order of the code points of "-" and of the digits
DateCharRank(c) == IF c = "-" THEN 0 ELSE 1 + DigitVal(c)

\* s > t for two str of digits and "-"
RECURSIVE StrGreater(_, _)
StrGreater(s, t) ==
    IF Len(s) = 0 THEN FALSE
    ELSE IF Len(t) = 0 THEN TRUE
    ELSE IF s[1] = t[1] THEN StrGreater(Tail(s), Tail(t))
    ELSE DateCharRank(s[1]) > DateCharRank(t[1])

\* validar_data(params.get(k))
DateOf(kw, k) == IF HasKey(kw, k) THEN ValidarData(StrOf(Lookup(kw, k))) ELSE NoDate

\* validar_intervalo_datas does not raise: both dates are valid and
\* inicio_norm > fim_norm, a comparison of the two normalised str, is false
ValidarIntervaloDatas(a, b) ==
    /\ a.ok
    /\ b.ok
    /\ (~a.none /\ ~b.none => ~StrGreater(Strftime(a.ymd), Strftime(b.ymd)))

data_params ==
    { <<"data_inicio", "data_fim">>, <<"data_inicial", "data_final">>,
      <<"inicio", "fim">>, <<"begin_date", "end_date">> }

\* _validar_parametros does not raise ValidationError (the dates it writes
\* back in normal form are not kept: the model does not read them again)
ValidarParametros(kw) ==
    \A pr \in data_params :
        (HasKey(kw, pr[1]) \/ HasKey(kw, pr[2]))
            => ValidarIntervaloDatas(DateOf(kw, pr[1]), DateOf(kw, pr[2]))

\* list_keys of raspar: the arguments whose value is a list or a tuple
list_keys(kw) == SelectSeq(kw, LAMBDA p : p.list)

\* mutant of TooManyLists: two lists are let through
TooManyListsOverTwo(keys) == Len(keys) > 2

\* len(list_keys) > 1
TooManyLists(keys) == Len(keys) > 1

\* the names raspar looks for to find the search term
TermNamesNoQ == <<"pesquisa", "termo", "query">>

TermNames == <<"pesquisa", "termo", "q", "query">>

BrowserTermNames == <<"assunto", "pesquisa", "termo", "q", "query">>

InSeq(x, sq) == \E i \in 1..Len(sq) : sq[i] = x

\* next((k for k in kwargs if k in names), None): the position in kwargs of
\* the first argument so named, 0 for None
termo_param(kw, names) ==
    IF \E i \in 1..Len(kw) : InSeq(kw[i].name, names)
    THEN CHOOSE i \in 1..Len(kw) :
            /\ InSeq(kw[i].name, names)
            /\ \A j \in 1..(i - 1) : ~InSeq(kw[j].name, names)
    ELSE 0

\* the termo_busca column of a row: absent, or a text
NoTermo == [present |-> FALSE, chars |-> <<>>]

Termo(c) == [present |-> TRUE, chars |-> c]

\* the column assigned from the search-term argument, if there is one
termo_of(kw, names) ==
    IF termo_param(kw, names) = 0 THEN NoTermo
    ELSE Termo(StrOf(kw[termo_param(kw, names)]))

\* the column BaseScraper.raspar assigns to the table of harvest h: str(val)
\* in a run over a list of values, else that of the search-term argument
termo_busca(kw, h) ==
    IF Len(list_keys(kw)) > 0
    THEN Termo(PyStr(list_keys(kw)[1].vals[h]))
    ELSE termo_of(kw, TermNames)

\* the harvests BaseScraper.raspar runs: one per value of the list, else one
Harvests(kw) ==
    IF Len(list_keys(kw)) > 0 THEN Len(list_keys(kw)[1].vals) ELSE 1

\* a row of a table: the page it was parsed from, its termo_busca, and the
\* harvest whose frame it belongs to (the frames are concatenated in order)
Row(pag, t, h) == [page |-> pag, termo_busca |-> t, harvest |-> h]

\* the values given in a list, in order
TermValue(i) ==
    CASE i = 1 -> StrValue(<<"x">>)
      [] i = 2 -> IntValue(23)
      [] OTHER -> StrValue(<<"y">>)

ValueList(n) == [i \in 1..n |-> TermValue(i)]

GoodDate == StrValue(<<"2", "0", "2", "4", "-", "0", "1", "-", "1", "5">>)

ImpossibleDate == StrValue(<<"3", "1", "/", "0", "2", "/", "2", "0", "2", "4">>)

UsualKwargs == <<Param("pesquisa", StrValue(<<"x">>))>>

\* the dates a caller writes: two dates of this century, a date of the
\* tenth century, a day that does not exist and a text that is not a date
EarlierDate == StrValue(<<"3", "1", "/", "1", "2", "/", "2", "0", "2", "3">>)

AncientDate == StrValue(<<"0", "9", "9", "9", "-", "0", "1", "-", "0", "1">>)

MalformedDate == StrValue(<<"1", "5", "-", "0", "1">>)

DateValues == {GoodDate, EarlierDate, AncientDate, ImpossibleDate, MalformedDate}

\* the calls that give one or both dates of one of the pairs of data_params
DateKwargsValues ==
    {<<Param("pesquisa", StrValue(<<"x">>)), Param(pr[1], a), Param(pr[2], b)>> :
        pr \in data_params, a \in DateValues, b \in DateValues}
      \cup {<<Param(pr[i], a), Param("pesquisa", StrValue(<<"x">>))>> :
               pr \in data_params, i \in 1..2, a \in DateValues}

\* the keyword arguments a caller passes
KwargsValues ==
    { UsualKwargs,
      <<Param("ano", IntValue(23)), Param("q", StrValue(<<"y">>)),
        Param("pesquisa", StrValue(<<"x">>))>>,
      <<Param("ano", IntValue(23)), Param("data_inicio", GoodDate)>>,
      <<Param("pesquisa", StrValue(<<"x">>)), Param("data_fim", ImpossibleDate)>>,
      <<Param("pesquisa", StrValue(<<"x">>)), ListParam("ano", <<IntValue(23)>>)>>,
      <<ListParam("pesquisa", ValueList(MaxList)), ListParam("ano", ValueList(1))>>,
      <<ListParam("ano", ValueList(1)), Param("data_inicio", ImpossibleDate),
        ListParam("termo", ValueList(1))>> }
      \cup {<<ListParam("termo", ValueList(n))>> : n \in 0..MaxList}

-----------------------------------------------------------------------------
(* The environment: what the remote source may answer.                     *)

\* Retry-After values: absent, empty, delay-seconds, an HTTP-date
RetryAfterValues ==
    { NoHeader,
      Header(<<>>),
      Header(<<"0">>),
      Header(<<"3", "0">>),
      Header(<<"W", "e", "d", ",", " ", "2", "1">>) }

Blank == [kind |-> "blank", n |-> 0]

NoCount == [kind |-> "nocount", n |-> 0]

NullCount == [kind |-> "null", n |-> 0]

Count(n) == [kind |-> "count", n |-> n]

\* what the body of the answer to the probe may hold for each scraper: a
\* blank text, a body without the result count, a null count, or a count
ProbeBodies(s) ==
    IF s = "MEU"
    THEN {Blank, NoCount, NullCount, Count(0), Count(2)}
    ELSE {Blank, NoCount, Count(0), Count(7), Count(23)}

\* the body of the answer to a page request: blank or not
PageBodies == {Blank, NoCount}

ServerStatuses == {500, 503}

Resp(st, h, b) == [status |-> st, retry_after |-> h, body |-> b]

ResponsesWith(bodies) ==
    {Resp(200, NoHeader, b) : b \in bodies}
      \cup {Resp(404, NoHeader, NoCount)}
      \cup {Resp(429, h, NoCount) : h \in RetryAfterValues}
      \cup {Resp(st, NoHeader, NoCount) : st \in ServerStatuses}

NoResp == Resp(0, NoHeader, Blank)

-----------------------------------------------------------------------------
(* The scrapers' page-count extractors.                                    *)

Scrapers == {"CAMARA", "CNJ", "FOLHA", "MEU"}

IntResult(n) == [kind |-> "int", n |-> n, exc |-> ""]

NoneResult == [kind |-> "None", n |-> 0, exc |-> ""]

Raises(e) == [kind |-> "raise", n |-> 0, exc |-> e]

\* requests.Response.raise_for_status
RaisesForStatus(r) == r.status >= 400 /\ r.status < 600

\* ScraperCamaraDeputados._find_n_pags
CamaraFindNPags(r0) ==
    IF RaisesForStatus(r0) THEN Raises("HTTPError")
    ELSE LET num == IF r0.body.kind = "count" THEN r0.body.n ELSE 0
         IN IntResult((num + 9) \div CamaraPageSize)

\* comunicaCNJ_Scraper._find_n_pags
CnjFindNPags(r0) ==
    IF RaisesForStatus(r0) THEN Raises("HTTPError")
    ELSE IF r0.body.kind = "blank" THEN Raises("JSONDecodeError")
    ELSE IF r0.body.kind # "count" THEN Raises("ValueError")
    ELSE IntResult((r0.body.n \div CnjPageSize) + 1)

\* ScraperFolha._find_n_pags
FolhaFindNPags(r0) ==
    IF RaisesForStatus(r0) THEN Raises("HTTPError")
    ELSE IF r0.body.kind = "count"
    THEN IntResult((r0.body.n + 24) \div FolhaPageSize)
    ELSE IntResult(0)

\* the subclass of the module's usage example:
\* response.json().get("total_paginas", 1)
MeuFindNPags(r0) ==
    IF r0.body.kind = "blank" THEN Raises("JSONDecodeError")
    ELSE IF r0.body.kind = "nocount" THEN IntResult(1)
    ELSE IF r0.body.kind = "null" THEN NoneResult
    ELSE IntResult(r0.body.n)

FindNPags(s, r0) ==
    CASE s = "CAMARA" -> CamaraFindNPags(r0)
      [] s = "CNJ" -> CnjFindNPags(r0)
      [] s = "FOLHA" -> FolhaFindNPags(r0)
      [] s = "MEU" -> MeuFindNPags(r0)

-----------------------------------------------------------------------------
(* BaseScraper._request_with_retry.                                        *)

Pending == [kind |-> "pending", exc |-> "", retry_after |-> NoneInt, status |-> 0]

Returned(r) == [kind |-> "return", exc |-> "", retry_after |-> NoneInt, status |-> r.status]

Raised(e, ra, st) == [kind |-> "raise", exc |-> e, retry_after |-> ra, status |-> st]

\* mutant of IsReturned: only a success is returned at once
IsReturnedSuccessOnly(r) == r.status < 400

\* success or client error other than 429: the response is returned at once
IsReturned(r) ==
    r.status < 400 \/ (400 <= r.status /\ r.status < 500 /\ r.status # 429)

\* mutant of WaitTime: the Retry-After hint is ignored
WaitTimeNoHint(r, a) == Pow2(a)

\* the wait computed for a 429 or a 5xx response at loop index a
WaitTime(r, a) ==
    IF r.status = 429 /\ Truthy(r.retry_after) /\ PyInt(r.retry_after.chars).ok
    THEN PyInt(r.retry_after.chars).n
    ELSE Pow2(a)

\* attempts remain after loop index a
MoreAttempts(a, retries) == a < retries - 1

\* the raise statement taken when the attempts are exhausted on r; the
\* argument int(retry_after) of RateLimitError is evaluated first
Exhausted(r) ==
    IF r.status = 429
    THEN IF Truthy(r.retry_after)
         THEN IF PyInt(r.retry_after.chars).ok
              THEN Raised("RateLimitError", SomeInt(PyInt(r.retry_after.chars).n), 429)
              ELSE Raised("ValueError", NoneInt, 429)
         ELSE Raised("RateLimitError", NoneInt, 429)
    ELSE Raised("APIError", NoneInt, r.status)

\* what stamped may be after a request and a sleep of w seconds: a sleep of
\* a second or more moves the clock to a later second, a request may
Elapsed(st, w) == IF w >= 1 THEN {0} ELSE {st, 0}

\* one iteration of the for loop: the request, then return, sleep or raise
RequestWithRetryStep ==
    /\ pc = "probe"
    /\ attempt < max_retries
    /\ requests' = requests + 1
    /\ \/ /\ outcome' = Raised("ConnectionError", NoneInt, 0)
          /\ pc' = "probed"
          /\ stamped' \in Elapsed(stamped, 0)
          /\ UNCHANGED <<attempt, sleeps, responses>>
       \/ \E r \in ResponsesWith(ProbeBodies(scraper)) :
            /\ responses' = Append(responses, r)
            /\ IF IsReturned(r)
               THEN /\ outcome' = Returned(r)
                    /\ pc' = "probed"
                    /\ stamped' \in Elapsed(stamped, 0)
                    /\ UNCHANGED <<attempt, sleeps>>
               ELSE IF MoreAttempts(attempt, max_retries)
               THEN /\ sleeps' = Append(sleeps, WaitTime(r, attempt))
                    /\ attempt' = attempt + 1
                    /\ stamped' \in Elapsed(stamped, WaitTime(r, attempt))
                    /\ UNCHANGED <<outcome, pc>>
               ELSE /\ outcome' = Exhausted(r)
                    /\ pc' = "probed"
                    /\ stamped' \in Elapsed(stamped, 0)
                    /\ UNCHANGED <<attempt, sleeps>>
    /\ UNCHANGED <<cfg, util, life, it, dfs, paginas, contagem, n_pags, total_pages, idx,
                   dir_exists, dirs, driver, files, trace, last, result>>

-----------------------------------------------------------------------------
(* BaseScraper._get_n_pags.                                                *)

NotCalled == [kind |-> "notcalled", n |-> 0, exc |-> ""]

Running == [kind |-> "running", exc |-> "", table |-> {}]

RaisedOut(e) == [kind |-> "raised", exc |-> e, table |-> {}]

ReturnedTable(t) == [kind |-> "returned", exc |-> "", table |-> t]

\* the exceptions of the initial request that _get_n_pags turns into 0 pages
ProbeErrorCaught(e) == e \in {"RateLimitError", "APIError"}

\* the page count of a _find_n_pags result that did not raise
CountOrZero(c) == IF c.kind = "None" THEN 0 ELSE c.n

\* the rest of _get_n_pags once _request_with_retry has ended; the locals of
\* _request_with_retry go out of scope
GetNPags ==
    /\ pc = "probed"
    /\ IF outcome.kind = "raise"
       THEN IF ProbeErrorCaught(outcome.exc)
            THEN /\ n_pags' = 0
                 /\ pc' = "range"
                 /\ UNCHANGED <<contagem, result>>
            ELSE /\ result' = RaisedOut(outcome.exc)
                 /\ pc' = "raised"
                 /\ UNCHANGED <<contagem, n_pags>>
       ELSE LET c == FindNPags(scraper, responses[Len(responses)])
            IN /\ contagem' = c
               /\ IF c.kind = "raise"
                  THEN /\ result' = RaisedOut(c.exc)
                       /\ pc' = "raised"
                       /\ UNCHANGED n_pags
                  ELSE /\ n_pags' = CountOrZero(c)
                       /\ pc' = "range"
                       /\ UNCHANGED result
    /\ attempt' = 0
    /\ requests' = 0
    /\ sleeps' = <<>>
    /\ responses' = <<>>
    /\ UNCHANGED <<cfg, util, life, it, dfs, paginas, outcome, total_pages, idx,
                   dir_exists, dirs, stamped, driver, files, trace, last>>

-----------------------------------------------------------------------------
(* BaseScraper._set_paginas and the head of _download_data.                *)

PNone == [kind |-> "None", start |-> 0, stop |-> 0, step |-> 1]

\* a value that is not a range, such as paginas=5
PInt == [kind |-> "int", start |-> 0, stop |-> 0, step |-> 1]

PUnset == [kind |-> "unset", start |-> 0, stop |-> 0, step |-> 1]

PRange(a, b, c) == [kind |-> "range", start |-> a, stop |-> b, step |-> c]

\* the page ranges a caller asks for
PaginasValues ==
    { PNone, PInt,
      PRange(1, 1000, 1), PRange(1, 1, 1), PRange(0, 2, 1), PRange(2, 4, 1),
      PRange(1, 6, 2), PRange(3, 0, -1) }

ListResult(l) == [ok |-> TRUE, list |-> l, exc |-> ""]

ListRaises(e) == [ok |-> FALSE, list |-> <<>>, exc |-> e]

\* _set_paginas(paginas, n_pags) followed by list(paginas); n is an optional
\* int; a value without .start raises AttributeError
SetPaginas(p, n) ==
    LET n0 == IF n.isNone THEN 0 ELSE n.n
    IN IF p.kind = "None" THEN ListResult(PyRange(1, n0 + 1, 1))
       ELSE IF p.kind = "range"
       THEN ListResult(PyRange(p.start, Min(p.stop, n0 + 1), p.step))
       ELSE ListRaises("AttributeError")

\* mutant of LoopPc: a skipped or failed page ends the loop
LoopPcAbort(kind, i, n) ==
    IF i = n \/ kind \in {"skipped", "exception"} THEN "downloaded" ELSE "fetch"

\* where the loop goes after iteration i of n, whatever the iteration's kind
\* (saved, skipped by continue, exception caught and continue)
LoopPc(kind, i, n) == IF i = n THEN "downloaded" ELSE "fetch"

NoLast == [page |-> 0, kind |-> "none", resp |-> NoResp, exc |-> ""]

\* _create_download_dir called for harvest h: the directory is named by the
\* second the clock shows, and os.makedirs raises FileExistsError when a
\* directory of that name exists
CreateDownloadDir(ds, st, h) ==
    IF st \in ds
    THEN [ok |-> FALSE, dirs |-> ds, stamped |-> st]
    ELSE [ok |-> TRUE, dirs |-> ds \cup {h}, stamped |-> h]

\* the values kwargs.get("paginas") may have: drawn when _download_data
\* first reads it, the same in every harvest of the call
PaginasRead(p) == IF p = PUnset THEN PaginasValues ELSE {p}

\* _download_data from "Definindo paginas" to the first page: the requested
\* range is read, clamped and listed, and the session directory is created
\* (a range always has __iter__, so the fallback to range(0) is never taken)
ComputeRange ==
    /\ pc = "range"
    /\ \E p \in PaginasRead(paginas) :
         LET l == SetPaginas(p, SomeInt(n_pags))
             d == CreateDownloadDir(dirs, stamped, it + 1)
         IN /\ paginas' = p
            /\ IF ~l.ok
               THEN /\ result' = RaisedOut(l.exc)
                    /\ pc' = "raised"
                    /\ UNCHANGED <<total_pages, dir_exists, dirs, stamped>>
               ELSE IF ~d.ok
               THEN /\ result' = RaisedOut("FileExistsError")
                    /\ pc' = "raised"
                    /\ UNCHANGED <<total_pages, dir_exists, dirs, stamped>>
               ELSE /\ total_pages' = l.list
                    /\ dir_exists' = TRUE
                    /\ dirs' = d.dirs
                    /\ stamped' = d.stamped
                    /\ pc' = LoopPc("none", 0, Len(l.list))
                    /\ UNCHANGED result
    /\ UNCHANGED <<cfg, util, life, it, dfs, attempt, requests, sleeps, responses, outcome,
                   contagem, n_pags, idx, driver, files, trace, last>>

-----------------------------------------------------------------------------
(* The fetch loop of BaseScraper._download_data.                           *)

\* the answers to a page request: the loop reads only the status and the text
PageResponses ==
    {r \in ResponsesWith(PageBodies) :
        r.retry_after \in {NoHeader, Header(<<"3", "0">>)}}

\* a server error: the page is logged and skipped
PageSkipped(r) == r.status >= 500

File(pag, c) == [page |-> pag, content |-> c]

\* the files after open(file_name, "w") and the write of the content: open
\* creates or truncates the file, and a blank text makes r.json() raise
\* before anything is written
WriteFile(fs, pag, r) ==
    {f \in fs : f.page # pag}
      \cup {File(pag, IF r.body.kind = "blank" THEN "empty" ELSE "payload")}

SleepEvent == [ev |-> "sleep", arg |-> SleepTime]

RequestEvent(pag) == [ev |-> "request", arg |-> pag]

\* mutant of PageEvents: the page is requested a second time
PageEventsReissue(pag) ==
    <<[ev |-> "sleep", arg |-> SleepTime], [ev |-> "request", arg |-> pag],
      [ev |-> "request", arg |-> pag]>>

\* mutant of PageEvents: the pacing sleep comes after the request
PageEventsSleepAfter(pag) ==
    <<[ev |-> "request", arg |-> pag], [ev |-> "sleep", arg |-> SleepTime]>>

\* what one iteration does before it looks at the answer: the pacing sleep,
\* then the single call of _set_r for the page
PageEvents(pag) == <<SleepEvent, RequestEvent(pag)>>

\* one iteration of the for loop over total_pages: the pacing sleep, the
\* request and the write of the file
FetchPage ==
    /\ pc = "fetch"
    /\ idx < Len(total_pages)
    /\ LET pag == total_pages[idx + 1]
       IN /\ trace' = trace \o PageEvents(pag)
          /\ \/ /\ last' = [page |-> pag, kind |-> "exception",
                            resp |-> NoResp, exc |-> "ConnectionError"]
                /\ UNCHANGED files
             \/ \E r \in PageResponses, disk_ok \in BOOLEAN :
                  IF PageSkipped(r)
                  THEN /\ last' = [page |-> pag, kind |-> "skipped",
                                   resp |-> r, exc |-> ""]
                       /\ UNCHANGED files
                  ELSE IF ~disk_ok
                  THEN /\ last' = [page |-> pag, kind |-> "exception",
                                   resp |-> r, exc |-> "OSError"]
                       /\ UNCHANGED files
                  ELSE /\ files' = WriteFile(files, pag, r)
                       /\ last' = IF r.body.kind = "blank"
                                  THEN [page |-> pag, kind |-> "exception",
                                        resp |-> r, exc |-> "JSONDecodeError"]
                                  ELSE [page |-> pag, kind |-> "saved",
                                        resp |-> r, exc |-> ""]
    /\ idx' = idx + 1
    /\ pc' = LoopPc(last'.kind, idx + 1, Len(total_pages))
    /\ stamped' \in Elapsed(stamped, SleepTime)
    /\ UNCHANGED <<cfg, util, life, it, dfs, paginas, attempt, requests, sleeps,
                   responses, outcome, contagem, n_pags, total_pages,
                   dir_exists, dirs, driver, result>>

-----------------------------------------------------------------------------
(* BaseScraper.raspar.                                                     *)

\* the pages whose file holds a payload the parser can yield rows from
Parseable(fs) == {f.page : f \in {g \in fs : g.content = "payload"}}

\* mutant of Rmtree: the directory is kept
RmtreeNever(dbg, ds, h) == ds

\* the session directories after "if self.debug is False:
\* shutil.rmtree(path_result)" for harvest h
Rmtree(dbg, ds, h) == IF dbg = FALSE THEN ds \ {h} ELSE ds

\* the head of BaseScraper.raspar: the parameters are validated and the
\* list-valued ones counted; then _download_data is entered and the initial
\* request is about to be issued, unless the list of values is empty
Raspar ==
    /\ pc = "idle"
    /\ IF ~ValidarParametros(kwargs)
       THEN /\ result' = RaisedOut("ValidationError")
            /\ pc' = "raised"
       ELSE IF TooManyLists(list_keys(kwargs))
       THEN /\ result' = RaisedOut("ValueError")
            /\ pc' = "raised"
       ELSE IF Harvests(kwargs) = 0
       THEN /\ result' = ReturnedTable({})
            /\ pc' = "done"
       ELSE /\ pc' = "probe"
            /\ UNCHANGED result
    /\ UNCHANGED <<cfg, util, life, it, dfs, paginas, attempt, requests, sleeps, responses,
                   outcome, contagem, n_pags, total_pages, idx, dir_exists,
                   dirs, stamped, driver, files, trace, last>>

\* the end of a harvest in raspar: _parse_data over the session directory (a
\* page whose parse raises or yields nothing adds no rows), the termo_busca
\* column, the removal of the directory unless debug; then the next value of
\* the list is harvested with fresh locals, or the table is returned
ParseAndReturn ==
    /\ pc = "downloaded"
    /\ \E parsed \in SUBSET Parseable(files) :
         LET h == it + 1
             df == {Row(pag, termo_busca(kwargs, h), h) : pag \in parsed}
         IN /\ dfs' = dfs \cup df
            /\ IF h < Harvests(kwargs)
               THEN /\ pc' = "probe"
                    /\ UNCHANGED result
               ELSE /\ pc' = "done"
                    /\ result' = ReturnedTable(dfs \cup df)
    /\ it' = it + 1
    /\ dirs' = Rmtree(debug, dirs, it + 1)
    /\ IF it + 1 < Harvests(kwargs)
       THEN /\ outcome' = Pending
            /\ contagem' = NotCalled
            /\ n_pags' = 0
            /\ total_pages' = <<>>
            /\ idx' = 0
            /\ dir_exists' = FALSE
            /\ files' = {}
            /\ trace' = <<>>
            /\ last' = NoLast
       ELSE /\ dir_exists' = (it + 1 \in Rmtree(debug, dirs, it + 1))
            /\ files' = IF it + 1 \in Rmtree(debug, dirs, it + 1) THEN files ELSE {}
            /\ UNCHANGED <<outcome, contagem, n_pags, total_pages, idx, trace,
                           last>>
    /\ UNCHANGED <<cfg, util, life, paginas, attempt, requests, sleeps, responses,
                   stamped, driver>>

-----------------------------------------------------------------------------
(* SeleniumScraper.raspar and PlaywrightScraper._raspar_async.             *)

\* a subclass of SeleniumScraper, a subclass of PlaywrightScraper
BrowserScrapers == {"SELENIUM", "PLAYWRIGHT"}

\* the values of self._max_pages
MaxPagesValues == {2, MaxPagesDefault}

\* what _encontrar_total_paginas may return
BrowserTotals == {0, 1, 3}

\* the exception of a browser that cannot be started
StartError(s) == IF s = "SELENIUM" THEN "SeleniumError" ELSE "Error"

\* the exception of a failed navigation, search or read of the page
BrowserFailure(s) ==
    IF s = "SELENIUM" THEN "WebDriverException" ELSE "BrowserError"

\* where the loop over range(2, total_paginas + 1) goes after page i of n
BrowserLoopPc(i, n) == IF i < n THEN "pages" ELSE "saved"

\* the head of raspar: the parameters are validated, the session directory
\* is created and the browser context is entered
RasparBrowserBody ==
    /\ pc = "idle"
    /\ LET d == CreateDownloadDir(dirs, stamped, it + 1)
       IN IF ~ValidarParametros(kwargs)
          THEN /\ result' = RaisedOut("ValidationError")
               /\ pc' = "raised"
               /\ UNCHANGED <<dir_exists, dirs, stamped, driver>>
          ELSE IF ~d.ok
          THEN /\ result' = RaisedOut("FileExistsError")
               /\ pc' = "raised"
               /\ UNCHANGED <<dir_exists, dirs, stamped, driver>>
          ELSE /\ dir_exists' = TRUE
               /\ dirs' = d.dirs
               /\ stamped' = d.stamped
               /\ \/ /\ driver' = "open"
                     /\ pc' = "search"
                     /\ UNCHANGED result
                  \/ /\ driver' = "closed"
                     /\ result' = RaisedOut(StartError(scraper))
                     /\ pc' = "raised"
    /\ UNCHANGED <<cfg, util, nyt, it, dfs, paginas, attempt, requests, sleeps, responses,
                   outcome, contagem, n_pags, total_pages, idx, files, trace,
                   last>>

\* inside the browser context: the navigation to url_base, the search, the
\* count of result pages and the save of page 1; an exception is raised
\* again and the context closes the browser; with no result page raspar
\* returns an empty table from inside the context
BrowserSearchBody ==
    /\ pc = "search"
    /\ \/ /\ driver' = "closed"
          /\ result' = RaisedOut(BrowserFailure(scraper))
          /\ pc' = "raised"
          /\ stamped' \in Elapsed(stamped, 0)
          /\ UNCHANGED <<n_pags, idx, files>>
       \/ \E t \in BrowserTotals, disk_ok \in BOOLEAN :
            LET total_paginas == Min(t, max_pages)
            IN /\ n_pags' = total_paginas
               /\ stamped' \in Elapsed(stamped, PageLoadWait)
               /\ IF total_paginas = 0
                  THEN /\ driver' = "closed"
                       /\ result' = ReturnedTable({})
                       /\ pc' = "done"
                       /\ UNCHANGED <<idx, files>>
                  ELSE IF ~disk_ok
                  THEN /\ driver' = "closed"
                       /\ result' = RaisedOut("OSError")
                       /\ pc' = "raised"
                       /\ UNCHANGED <<idx, files>>
                  ELSE /\ files' = {File(1, "payload")}
                       /\ idx' = 1
                       /\ pc' = BrowserLoopPc(1, total_paginas)
                       /\ UNCHANGED <<driver, result>>
    /\ UNCHANGED <<cfg, util, nyt, it, dfs, paginas, attempt, requests, sleeps, responses,
                   outcome, contagem, total_pages, dir_exists, dirs, trace,
                   last>>

\* one iteration of the loop over the later pages: the navigation from page
\* idx, which may report the end of the pagination, and the save of the page
BrowserNextPageBody ==
    /\ pc = "pages"
    /\ idx < n_pags
    /\ \/ /\ pc' = "saved"
          /\ UNCHANGED <<idx, files, driver, result>>
       \/ /\ driver' = "closed"
          /\ result' = RaisedOut(BrowserFailure(scraper))
          /\ pc' = "raised"
          /\ UNCHANGED <<idx, files>>
       \/ /\ files' = files \cup {File(idx + 1, "payload")}
          /\ idx' = idx + 1
          /\ pc' = BrowserLoopPc(idx + 1, n_pags)
          /\ UNCHANGED <<driver, result>>
    /\ UNCHANGED <<cfg, util, nyt, it, dfs, paginas, attempt, requests, sleeps, responses,
                   outcome, contagem, n_pags, total_pages, dir_exists, dirs,
                   stamped, trace, last>>

\* the end of raspar: the context closes the browser, the saved pages are
\* parsed, the termo_busca column is assigned, the session directory is
\* removed unless debug and the table is returned
BrowserFinishBody ==
    /\ pc = "saved"
    /\ driver' = "closed"
    /\ \E parsed \in SUBSET Parseable(files) :
         result' = ReturnedTable(
            {Row(pag, termo_of(kwargs, BrowserTermNames), it + 1) : pag \in parsed})
    /\ it' = it + 1
    /\ dirs' = Rmtree(debug, dirs, it + 1)
    /\ dir_exists' = (it + 1 \in Rmtree(debug, dirs, it + 1))
    /\ files' = IF it + 1 \in Rmtree(debug, dirs, it + 1) THEN files ELSE {}
    /\ pc' = "done"
    /\ UNCHANGED <<cfg, util, nyt, dfs, paginas, attempt, requests, sleeps, responses,
                   outcome, contagem, n_pags, total_pages, idx, stamped, trace,
                   last>>

\* the harvest of a browser scraper, the browser taken as one resource
RasparBrowser == RasparBrowserBody /\ UNCHANGED <<session, espera>>

BrowserSearch == BrowserSearchBody /\ UNCHANGED <<session, espera>>

BrowserNextPage == BrowserNextPageBody /\ UNCHANGED <<session, espera>>

BrowserFinish == BrowserFinishBody /\ UNCHANGED <<session, espera>>

-----------------------------------------------------------------------------
(* The browser session: _driver_context and _encerrar_driver of            *)
(* SeleniumScraper, _browser_context, _encerrar_browser and                *)
(* _aguardar_cloudflare of PlaywrightScraper.                              *)

\* self._driver, self._playwright, self._browser, self._context, self._page
HandleNames == {"driver", "playwright", "browser", "context", "page"}

\* the handles of a scraper, in the order the context manager assigns them
Handles(s) ==
    IF s = "SELENIUM" THEN <<"driver">>
    ELSE <<"playwright", "browser", "context", "page">>

\* the order in which _encerrar_browser and _encerrar_driver close them
CloseOrder == <<"page", "context", "browser", "playwright", "driver">>

\* __init__: every handle is None and nothing has been opened
NoSession ==
    [handle |-> [h \in HandleNames |-> "None"],
     resource |-> [h \in HandleNames |-> "unopened"]]

\* the context manager has opened the first n resources of scraper s
Started(s, n) ==
    LET opened == {Handles(s)[i] : i \in 1..Min(n, Len(Handles(s)))}
    IN [handle |-> [h \in HandleNames |-> IF h \in opened THEN "set" ELSE "None"],
        resource |-> [h \in HandleNames |->
                         IF h \in opened THEN "open" ELSE "unopened"]]

\* the handles that are not None
SetHandles(ss) == {h \in HandleNames : ss.handle[h] = "set"}

\* mutant of Encerrar: a close that raises ends the closing
EncerrarAborting(ss, failing) ==
    LET reached(h) ==
            \E i \in 1..Len(CloseOrder) :
                /\ CloseOrder[i] = h
                /\ \A j \in 1..(i - 1) :
                      ~(CloseOrder[j] \in failing \cap SetHandles(ss))
    IN [handle |-> [h \in HandleNames |->
                      IF reached(h) THEN "None" ELSE ss.handle[h]],
        resource |-> [h \in HandleNames |->
                      IF ss.handle[h] = "set" /\ reached(h)
                      THEN IF h \in failing THEN "close_raised" ELSE "closed"
                      ELSE ss.resource[h]]]

\* _encerrar_browser and _encerrar_driver: every handle that is not None is
\* closed, a close that raises is logged, and the handle is None either way
Encerrar(ss, failing) ==
    [handle |-> [h \in HandleNames |-> "None"],
     resource |-> [h \in HandleNames |->
                      IF ss.handle[h] = "set"
                      THEN IF h \in failing THEN "close_raised" ELSE "closed"
                      ELSE ss.resource[h]]]

\* the finally clause of the context manager, entered when the with block is
\* left: any of the closes may raise
CloseOnExit ==
    \E failing \in SUBSET SetHandles(session) :
        session' = IF driver' = "closed" THEN Encerrar(session, failing)
                   ELSE session

\* what the site shows while _aguardar_cloudflare polls it: from the second
\* at on, the cf_clearance cookie, a page without challenge, or a failure of
\* the read; "never" is a challenge that does not clear
ClearTimes == {0, 1, CloudflareTimeout - 1, CloudflareTimeout}

ClearValues ==
    {[how |-> h, at |-> t] : h \in {"cookie", "content", "error"}, t \in ClearTimes}
      \cup {[how |-> "never", at |-> 0]}

NoEspera == [state |-> "none", elapsed |-> 0, clears |-> [how |-> "never", at |-> 0]]

\* start_time = time.time()
Waiting(w) == [state |-> "waiting", elapsed |-> 0, clears |-> w]

\* what an iteration that starts at second e finds
Seen(w, e) == IF w.how # "never" /\ w.at <= e THEN w.how ELSE "challenge"

\* mutant of Tick: the clock does not advance
TickStalls(e, d) == e

\* time.time() - start_time after d more seconds
Tick(e, d) == e + d

\* raspar of a browser scraper with its handles: the context manager opens
\* the resources in order, and when one cannot be opened its finally clause
\* closes those already opened
RasparSession ==
    /\ RasparBrowserBody
    /\ IF pc' = "search"
       THEN /\ session' = Started(scraper, Len(Handles(scraper)))
            /\ \E w \in ClearValues :
                 espera' = IF scraper = "PLAYWRIGHT" THEN Waiting(w)
                           ELSE NoEspera
       ELSE /\ UNCHANGED espera
            /\ IF result'.exc = StartError(scraper)
               THEN \E n \in 0..Len(Handles(scraper)) :
                      \E failing \in SUBSET SetHandles(Started(scraper, n)) :
                         session' = Encerrar(Started(scraper, n), failing)
               ELSE UNCHANGED session

\* one iteration of the while loop of _aguardar_cloudflare, or the raise
\* after it: the wait returns when the cookie or the real page is seen, else
\* sleeps; BrowserError leaves the with block, whose finally clause closes
\* the browser
AguardarCloudflare ==
    /\ pc = "search"
    /\ espera.state = "waiting"
    /\ IF ~(espera.elapsed < CloudflareTimeout)
       THEN /\ espera' = [espera EXCEPT !.state = "raised"]
            /\ result' = RaisedOut("BrowserError")
            /\ pc' = "raised"
            /\ driver' = "closed"
            /\ CloseOnExit
       ELSE CASE Seen(espera.clears, espera.elapsed) = "cookie" ->
                   /\ espera' = [espera EXCEPT
                                   !.state = "returned",
                                   !.elapsed = Tick(@, CookieSettle)]
                   /\ UNCHANGED <<result, pc, driver, session>>
              [] Seen(espera.clears, espera.elapsed) = "content" ->
                   /\ espera' = [espera EXCEPT !.state = "returned"]
                   /\ UNCHANGED <<result, pc, driver, session>>
              [] Seen(espera.clears, espera.elapsed) = "error" ->
                   /\ espera' = [espera EXCEPT !.state = "raised"]
                   /\ result' = RaisedOut("Error")
                   /\ pc' = "raised"
                   /\ driver' = "closed"
                   /\ CloseOnExit
              [] OTHER ->
                   /\ \E d \in 1..MaxTick :
                        espera' = [espera EXCEPT !.elapsed = Tick(@, d)]
                   /\ UNCHANGED <<result, pc, driver, session>>
    /\ UNCHANGED <<cfg, util, nyt, it, dfs, paginas, attempt, requests, sleeps,
                   responses, outcome, contagem, n_pags, total_pages, idx,
                   dir_exists, dirs, stamped, files, trace, last>>

\* the search once the wait has returned
SessionSearch ==
    /\ espera.state # "waiting"
    /\ BrowserSearchBody
    /\ CloseOnExit
    /\ UNCHANGED espera

SessionNextPage == BrowserNextPageBody /\ CloseOnExit /\ UNCHANGED espera

SessionFinish == BrowserFinishBody /\ CloseOnExit /\ UNCHANGED espera

-----------------------------------------------------------------------------
(* ScraperNYT._download_data (src/src/raspe/scrapers/nyt.py): the pages of *)
(* the search are reached one after the other through the cursor each      *)
(* response carries.                                                       *)

\* the values of totalCount in the first response
HitsValues == {0, 1, ResultsPerPage + 1, 2 * ResultsPerPage + 1}

\* the values of self._max_resultados, 0 for None
MaxResultadosValues == {0, ResultsPerPage, 2 * ResultsPerPage}

\* the values of kwargs.get("paginas") in a call on ScraperNYT
NytPaginas ==
    {PNone, PRange(1, 1000, 1), PRange(1, 3, 1), PRange(2, 3, 1), PRange(1, 1, 1)}

\* (a + b - 1) // b
CeilDiv(a, b) == (a + b - 1) \div b

\* ScraperNYT._find_n_pags: the pages the hits fill, capped by max_resultados
NytFindNPags(status, total_hits, max_resultados) ==
    IF status >= 400 THEN 0
    ELSE IF max_resultados # 0
    THEN Min(CeilDiv(total_hits, ResultsPerPage),
             CeilDiv(max_resultados, ResultsPerPage))
    ELSE CeilDiv(total_hits, ResultsPerPage)

\* max_pag: min(paginas.stop, n_pags + 1) for a range that is not empty,
\* n_pags for None, an empty range or a value without stop
NytMaxPag(p, n) ==
    IF p.kind = "range" /\ RangeLen(p.start, p.stop, p.step) > 0
    THEN Min(p.stop, n + 1)
    ELSE n

\* where the loop over range(2, max_pag + 1) goes before page pag
NytLoopPc(pag, max_pag) == IF pag <= max_pag THEN "loop" ELSE "returned"

\* the scraper before _download_data is called
NytIdle(m) ==
    [pc |-> "idle", max_resultados |-> m, n_pags |-> 0, max_pag |-> 0,
     pag |-> 0, current_cursor |-> FALSE, has_next |-> TRUE, saved |-> {},
     requests |-> 0]

NoNyt == NytIdle(0)

\* the head of _download_data: the first request, the page count, the
\* session directory, the file of page 1 and max_pag
NytProbe ==
    /\ nyt.pc = "idle"
    /\ \E status \in {200, 403}, hits \in HitsValues, cursor, next \in BOOLEAN :
         LET n == NytFindNPags(status, hits, nyt.max_resultados)
             m == NytMaxPag(paginas, n)
         IN nyt' = IF n = 0
                   THEN [nyt EXCEPT !.pc = "returned", !.requests = 1]
                   ELSE [nyt EXCEPT
                           !.pc = NytLoopPc(2, m),
                           !.n_pags = n,
                           !.max_pag = m,
                           !.pag = 2,
                           !.current_cursor = cursor,
                           !.has_next = next,
                           !.saved = {1},
                           !.requests = 1]
    /\ UNCHANGED <<cfg, call, util, session, espera>>

\* one iteration of the loop over range(2, max_pag + 1): without a cursor
\* the loop ends; a 5xx answer or an exception skips the page; else the
\* cursor is replaced, the page saved, and the loop ends when the answer
\* reports no next page
NytPage ==
    /\ nyt.pc = "loop"
    /\ IF ~nyt.current_cursor
       THEN nyt' = [nyt EXCEPT !.pc = "returned"]
       ELSE \E answer \in {"5xx", "raises", "page"}, cursor, next \in BOOLEAN :
              nyt' = IF answer = "page"
                     THEN [nyt EXCEPT
                             !.pc = IF next THEN NytLoopPc(nyt.pag + 1, nyt.max_pag)
                                    ELSE "returned",
                             !.pag = @ + 1,
                             !.current_cursor = cursor,
                             !.has_next = next,
                             !.saved = @ \cup {nyt.pag},
                             !.requests = @ + 1]
                     ELSE [nyt EXCEPT
                             !.pc = NytLoopPc(nyt.pag + 1, nyt.max_pag),
                             !.pag = @ + 1,
                             !.requests = @ + 1]
    /\ UNCHANGED <<cfg, call, util, session, espera>>

-----------------------------------------------------------------------------
(* expand (src/src/raspe/utils.py): a search expression over terms, the    *)
(* operators E and OU and parentheses is expanded into the list of its     *)
(* term combinations.  A string is the sequence of its characters.         *)

\* the characters \s matches among those of the expressions explored
Whitespace == {" ", "\n"}

\* re.sub(r'\s+', ' ', s): every run of whitespace becomes one blank
RECURSIVE CollapseWhitespace(_)
CollapseWhitespace(s) ==
    IF s = <<>> THEN <<>>
    ELSE IF s[1] \in Whitespace
    THEN IF Len(s) > 1 /\ s[2] \in Whitespace
         THEN CollapseWhitespace(Tail(s))
         ELSE <<" ">> \o CollapseWhitespace(Tail(s))
    ELSE <<s[1]>> \o CollapseWhitespace(Tail(s))

StartsWith(s, p) == Len(s) >= Len(p) /\ SubSeq(s, 1, Len(p)) = p

\* p in s
Contains(s, p) == \E k \in 0..(Len(s) - Len(p)) : SubSeq(s, k + 1, k + Len(p)) = p

\* s.count(c) for a character c
CountChar(s, c) == Cardinality({k \in 1..Len(s) : s[k] = c})

\* s.replace(old, new): the occurrences of old found from left to right,
\* without overlap
RECURSIVE Replace(_, _, _)
Replace(s, old, new) ==
    IF s = <<>> THEN <<>>
    ELSE IF StartsWith(s, old)
    THEN new \o Replace(SubSeq(s, Len(old) + 1, Len(s)), old, new)
    ELSE <<s[1]>> \o Replace(Tail(s), old, new)

\* expression.replace(" E ", " AND ").replace(" OU ", " OR ")
ReplaceOperators(s) ==
    Replace(Replace(s, <<" ", "E", " ">>, <<" ", "A", "N", "D", " ">>),
            <<" ", "O", "U", " ">>, <<" ", "O", "R", " ">>)

\* re.sub(r'([()])', r' \1 ', s): blanks around every parenthesis
RECURSIVE PadParens(_)
PadParens(s) ==
    IF s = <<>> THEN <<>>
    ELSE IF s[1] \in {"(", ")"}
    THEN <<" ", s[1], " ">> \o PadParens(Tail(s))
    ELSE <<s[1]>> \o PadParens(Tail(s))

\* s.split(): the maximal runs of non-whitespace characters; cur is the run
\* being read
RECURSIVE Split(_, _)
Split(s, cur) ==
    IF s = <<>> THEN IF cur = <<>> THEN <<>> ELSE <<cur>>
    ELSE IF s[1] \in Whitespace
    THEN IF cur = <<>> THEN Split(Tail(s), <<>>)
         ELSE <<cur>> \o Split(Tail(s), <<>>)
    ELSE Split(Tail(s), Append(cur, s[1]))

tokenize(s) == Split(PadParens(s), <<>>)

TokAnd == <<"A", "N", "D">>

TokOr == <<"O", "R">>

\* mutant of Product: each pair is joined right term first
ProductRightThenLeft(left, right) ==
    [k \in 1..(Len(left) * Len(right)) |->
        right[((k - 1) % Len(right)) + 1] \o <<" ">>
          \o left[((k - 1) \div Len(right)) + 1]]

\* mutant of Product: only the first term of the right list is combined
ProductFirstRight(left, right) ==
    IF right = <<>> THEN <<>>
    ELSE [k \in 1..Len(left) |-> left[k] \o <<" ">> \o right[1]]

\* the nested loops of parse_and: f"{l} {r}" for l in left, for r in right
Product(left, right) ==
    [k \in 1..(Len(left) * Len(right)) |->
        left[((k - 1) \div Len(right)) + 1] \o <<" ">>
          \o right[((k - 1) % Len(right)) + 1]]

\* parse_expression: the recursive-descent parser.  Each function takes the
\* position i of the next token (i[0] + 1 of the code) and gives back the
\* list it parsed and the position it left
RECURSIVE parse_or(_, _)
RECURSIVE parse_or_loop(_, _, _)
RECURSIVE parse_and(_, _)
RECURSIVE parse_and_loop(_, _, _)
RECURSIVE parse_primary(_, _)

parse_or(tokens, i) ==
    LET l == parse_and(tokens, i) IN parse_or_loop(tokens, l.res, l.i)

\* the while loop of parse_or, entered with the list left
parse_or_loop(tokens, left, i) ==
    IF i <= Len(tokens) /\ tokens[i] = TokOr
    THEN LET r == parse_and(tokens, i + 1)
         IN parse_or_loop(tokens, left \o r.res, r.i)
    ELSE [res |-> left, i |-> i]

parse_and(tokens, i) ==
    LET l == parse_primary(tokens, i) IN parse_and_loop(tokens, l.res, l.i)

\* the while loop of parse_and, entered with the list left
parse_and_loop(tokens, left, i) ==
    IF i <= Len(tokens) /\ tokens[i] = TokAnd
    THEN LET r == parse_primary(tokens, i + 1)
         IN parse_and_loop(tokens, Product(left, r.res), r.i)
    ELSE [res |-> left, i |-> i]

parse_primary(tokens, i) ==
    IF i > Len(tokens) THEN [res |-> <<>>, i |-> i]
    ELSE IF tokens[i] = <<"(">>
    THEN LET r == parse_or(tokens, i + 1)
         IN IF r.i <= Len(tokens) /\ tokens[r.i] = <<")">>
            THEN [res |-> r.res, i |-> r.i + 1]
            ELSE r
    ELSE [res |-> <<tokens[i]>>, i |-> i + 1]

parse_expression(tokens) == parse_or(tokens, 1)

\* ord(c) for the characters of the expressions explored
Ord(c) ==
    CASE c = "\n" -> 10 [] c = " " -> 32 [] c = "(" -> 40 [] c = ")" -> 41
      [] c = "A" -> 65 [] c = "D" -> 68 [] c = "E" -> 69 [] c = "N" -> 78
      [] c = "O" -> 79 [] c = "R" -> 82 [] c = "U" -> 85
      [] c = "a" -> 97 [] c = "b" -> 98 [] c = "c" -> 99

\* s < t for two strings: the order sorted() uses
RECURSIVE StrLess(_, _)
StrLess(s, t) ==
    IF t = <<>> THEN FALSE
    ELSE IF s = <<>> THEN TRUE
    ELSE IF s[1] = t[1] THEN StrLess(Tail(s), Tail(t))
    ELSE Ord(s[1]) < Ord(t[1])

Range(f) == {f[k] : k \in DOMAIN f}

\* sorted(S) for a set S of strings
RECURSIVE SortedStrings(_)
SortedStrings(S) ==
    IF S = {} THEN <<>>
    ELSE LET m == CHOOSE x \in S : \A y \in S \ {x} : StrLess(x, y)
         IN <<m>> \o SortedStrings(S \ {m})

\* mutant of SortedSet: the duplicates are dropped, the order of first
\* occurrence is kept
RECURSIVE FirstOccurrences(_)
FirstOccurrences(res) ==
    IF res = <<>> THEN <<>>
    ELSE LET init == FirstOccurrences(SubSeq(res, 1, Len(res) - 1))
         IN IF res[Len(res)] \in Range(init) THEN init
            ELSE Append(init, res[Len(res)])

\* sorted(list(set(result)))
SortedSet(res) == SortedStrings(Range(res))

ExpandRaises(e) == [exc |-> e, list |-> <<>>, tokens |-> 0, consumed |-> 0]

\* expand(expression): the exception raised, or the list returned together
\* with the number of tokens of the expression and the number of them the
\* parser had consumed when it returned
expand(expression) ==
    LET e == CollapseWhitespace(expression)
    IN IF Contains(e, <<"(", ")">>) THEN ExpandRaises("ValueError")
       ELSE IF CountChar(e, "(") # CountChar(e, ")") THEN ExpandRaises("ValueError")
       ELSE LET tokens == tokenize(ReplaceOperators(e))
                p == parse_expression(tokens)
            IN [exc |-> "", list |-> SortedSet(p.res),
                tokens |-> Len(tokens), consumed |-> p.i - 1]

\* ", ".join(...) and " OU ".join(...): the strings of l with sep between
RECURSIVE Join(_, _)
Join(l, sep) ==
    IF l = <<>> THEN <<>>
    ELSE IF Len(l) = 1 THEN l[1]
    ELSE l[1] \o sep \o Join(Tail(l), sep)

(* The expressions a caller passes to expand.                              *)

\* the words used as terms
Terms == {"a", "b"}

Operators == {"E", "OU"}

Term(t) == [op |-> "term", term |-> t]

Node(o, l, r) == [op |-> o, left |-> l, right |-> r]

\* the expressions with exactly n terms, as trees
RECURSIVE ExprsOf(_)
ExprsOf(n) ==
    IF n = 1 THEN {Term(t) : t \in Terms}
    ELSE UNION {{Node(o, l, r) :
                   o \in Operators, l \in ExprsOf(k), r \in ExprsOf(n - k)} :
                k \in 1..(n - 1)}

Exprs == UNION {ExprsOf(n) : n \in 1..MaxTerms}

\* the tokens of the expression written for a tree: with parens "all" every
\* operand that is not a term is parenthesised, with "needed" only the
\* operands that would otherwise be read as another tree
RECURSIVE TreeTokens(_, _)
TreeTokens(t, parens) ==
    IF t.op = "term" THEN <<t.term>>
    ELSE LET group(c, needed) ==
                 IF c.op # "term" /\ (parens = "all" \/ needed)
                 THEN <<"(">> \o TreeTokens(c, parens) \o <<")">>
                 ELSE TreeTokens(c, parens)
         IN group(t.left, t.op = "E" /\ t.left.op = "OU")
              \o <<t.op>>
              \o group(t.right, t.op = "E" \/ t.right.op = "OU")

\* the characters of a token
Chars(tok) == IF tok = "OU" THEN <<"O", "U">> ELSE <<tok>>

\* what separates two tokens: with spacing "tight" a parenthesis touches
\* what it encloses and one blank stands elsewhere, with "loose" a blank and
\* a newline stand between any two tokens
Separator(prev, next, spacing) ==
    IF spacing = "loose" THEN <<" ", "\n">>
    ELSE IF prev = "(" \/ next = ")" THEN <<>>
    ELSE <<" ">>

RECURSIVE WriteTokens(_, _)
WriteTokens(toks, spacing) ==
    IF toks = <<>> THEN <<>>
    ELSE IF Len(toks) = 1 THEN Chars(toks[1])
    ELSE Chars(toks[1]) \o Separator(toks[1], toks[2], spacing)
           \o WriteTokens(Tail(toks), spacing)

\* the expression as typed: a loose one has a blank before and after
Write(toks, spacing) ==
    IF spacing = "loose" THEN <<" ">> \o WriteTokens(toks, spacing) \o <<" ">>
    ELSE WriteTokens(toks, spacing)

\* how the caller derives the expression of its second call from the first:
\* A OU B to B OU A, (A op B) op C to A op (B op C), X E (Y OU Z) to
\* (X E Y) OU (X E Z)
Applies(l, t) ==
    CASE l = "commute" -> t.op = "OU"
      [] l = "regroup" -> t.op # "term" /\ t.left.op = t.op
      [] l = "distribute" -> t.op = "E" /\ t.right.op = "OU"
      [] OTHER -> TRUE

Rewritten(l, t) ==
    CASE l = "commute" -> Node("OU", t.right, t.left)
      [] l = "regroup" ->
           Node(t.op, t.left.left, Node(t.op, t.left.right, t.right))
      [] l = "distribute" ->
           Node("OU", Node("E", t.left, t.right.left),
                      Node("E", t.left, t.right.right))
      [] OTHER -> t

Laws == {"commute", "regroup", "distribute"}

NoTree == [op |-> "none"]

\* an expression written from a tree, expanded once ("once"), expanded and
\* its output re-joined with " OU " and expanded ("rejoin"), or expanded
\* and rewritten by a law and expanded
TreeSources ==
    UNION {{[kind |-> "tree", tree |-> t, tokens |-> TreeTokens(t, p),
             parens |-> p, spacing |-> s, then |-> l] :
              p \in {"needed", "all"}, s \in {"tight", "loose"},
              l \in {"once", "rejoin"} \cup {x \in Laws : Applies(x, t)}} :
           t \in Exprs}

\* any sequence of terms, operators and parentheses
Alphabet == Terms \cup Operators \cup {"(", ")"}

RawSources ==
    {[kind |-> "raw", tree |-> NoTree, tokens |-> toks,
      parens |-> "needed", spacing |-> s, then |-> l] :
       toks \in UNION {[1..n -> Alphabet] : n \in 0..MaxTokens},
       s \in {"tight", "loose"}, l \in {"once", "rejoin"}}

Sources == TreeSources \cup RawSources

\* the argument of the first call of expand
FirstExpression(src) == Write(src.tokens, src.spacing)

\* the argument of the second call, the first having returned the list out
SecondExpression(src, out) ==
    IF src.then = "rejoin" THEN Join(out, <<" ", "O", "U", " ">>)
    ELSE Write(TreeTokens(Rewritten(src.then, src.tree), src.parens),
               src.spacing)

\* one call of expand: the argument and the outcome
Expand ==
    /\ source.kind \in {"tree", "raw"}
    /\ \/ expansions = <<>>
       \/ /\ Len(expansions) = 1
          /\ source.then # "once"
          /\ expansions[1].out.exc = ""
    /\ LET e == IF expansions = <<>> THEN FirstExpression(source)
                ELSE SecondExpression(source, expansions[1].out.list)
       IN expansions' =
            Append(expansions, [expression |-> e, out |-> expand(e)])
    /\ UNCHANGED <<cfg, call, life, source, df_copy, novo_df, arquivos, parsing>>

-----------------------------------------------------------------------------
(* remove_duplicates (src/src/raspe/utils.py): the rows of a table that    *)
(* share a link are merged into one.  A table is the sequence of its rows, *)
(* a cell is a string or is missing (NaN).                                 *)

NA == [na |-> TRUE, v |-> <<>>]

Str(s) == [na |-> FALSE, v |-> s]

\* the links that df.duplicated(subset='link', keep=False) marks: those of
\* two rows or more, two missing links counting as equal
DuplicatedLinks(d) ==
    {d[i].link : i \in {k \in 1..Len(d) :
                          \E j \in 1..Len(d) : j # k /\ d[j].link = d[k].link}}

\* df_copy[df_copy.duplicated(subset='link', keep=False)]
duplicatas(d) == SelectSeq(d, LAMBDA row : row.link \in DuplicatedLinks(d))

\* the group keys of groupby('link'): the links of the rows, the missing
\* one dropped, in ascending order
GroupKeys(d) == SortedStrings({row.link.v : row \in {x \in Range(d) : ~x.link.na}})

\* the rows of one group, in the order of the table
Group(d, key) == SelectSeq(d, LAMBDA row : row.link = Str(key))

\* mutant of JoinTermos: a provenance already joined is not repeated
JoinDistinctTermos(g) ==
    Str(Join(FirstOccurrences([i \in 1..Len(g) |-> g[i].termo_busca.v]),
             <<",", " ">>))

\* the aggregation ', '.join of termo_busca over one group
JoinTermos(g) ==
    Str(Join([i \in 1..Len(g) |-> g[i].termo_busca.v], <<",", " ">>))

\* the aggregation 'first' over the cells of one group: the first cell that
\* is not missing, a missing one when there is none
RECURSIVE First(_)
First(cells) ==
    IF cells = <<>> THEN NA
    ELSE IF ~cells[1].na THEN cells[1]
    ELSE First(Tail(cells))

\* duplicatas.groupby('link').agg(agg_dict).reset_index()
duplicatas_agrupadas(d) ==
    LET dup == duplicatas(d)
        keys == GroupKeys(dup)
    IN [n \in 1..Len(keys) |->
          LET g == Group(dup, keys[n])
          IN [link |-> Str(keys[n]),
              termo_busca |-> JoinTermos(g),
              titulo |-> First([i \in 1..Len(g) |-> g[i].titulo])]]

\* mutant of df_sem_duplicatas: drop_duplicates with keep='first'
DropDuplicatesKeepFirst(d) ==
    LET keep == {i \in 1..Len(d) : \A j \in 1..(i - 1) : d[j].link # d[i].link}
        RECURSIVE rows(_)
        rows(i) == IF i > Len(d) THEN <<>>
                   ELSE IF i \in keep THEN <<d[i]>> \o rows(i + 1)
                   ELSE rows(i + 1)
    IN rows(1)

\* df_copy.drop_duplicates(subset='link', keep=False)
df_sem_duplicatas(d) ==
    SelectSeq(d, LAMBDA row : row.link \notin DuplicatedLinks(d))

\* pd.concat([df_sem_duplicatas, duplicatas_agrupadas], ignore_index=True)
remove_duplicates(d) == df_sem_duplicatas(d) \o duplicatas_agrupadas(d)

(* The tables a caller passes to remove_duplicates.                        *)

\* the links: two pages, an empty link and a missing one
LinkValues == {Str(<<"a">>), Str(<<"b">>), Str(<<>>), NA}

\* the provenances: the search terms raspar wrote into the rows
TermoValues == {Str(<<"a">>), Str(<<"b">>)}

\* the values of another column
TituloValues == {Str(<<"a">>), Str(<<"c">>), NA}

RowValues ==
    {[link |-> l, termo_busca |-> t, titulo |-> c] :
       l \in LinkValues, t \in TermoValues, c \in TituloValues}

Tables == UNION {[1..n -> RowValues] : n \in 0..MaxRows}

NoTable == [kind |-> "none", exc |-> "", rows |-> <<>>]

ReturnedRows(rows) == [kind |-> "returned", exc |-> "", rows |-> rows]

\* one call of remove_duplicates
RemoveDuplicates ==
    /\ novo_df = NoTable
    /\ novo_df' = ReturnedRows(remove_duplicates(df_copy))
    /\ UNCHANGED <<cfg, call, life, source, expansions, df_copy, arquivos, parsing>>

-----------------------------------------------------------------------------
(* _parse_data (base_scraper.py, abstract_scraper.py): the page files of   *)
(* the session directory are parsed one by one and their frames are        *)
(* concatenated.                                                           *)

\* a page file, and what _parse_page does with it: it returns a frame,
\* returns None, or raises
PageFile(pag, o) == [page |-> pag, parse |-> o]

PageFiles ==
    {PageFile(pag, o) : pag \in 1..MaxFiles, o \in {"frame", "none", "raises"}}

\* what glob.glob may return for a session directory: the files of any
\* pages, one file per page, in arbitrary order
Listings ==
    {l \in UNION {[1..n -> PageFiles] : n \in 0..MaxFiles} :
       \A i, j \in 1..Len(l) : i # j => l[i].page # l[j].page}

\* the frame _parse_page returns for the file of a page: two rows
Frame(pag) == <<[page |-> pag, row |-> 1], [page |-> pag, row |-> 2]>>

NoFrame == [kind |-> "none", rows |-> <<>>]

\* _parse_data is entered: no file handled, result = []
NotParsed == [i |-> 0, result |-> <<>>, logged |-> <<>>, out |-> NoFrame]

\* mutant of AfterParsePage: the exception of _parse_page is not caught
AfterParsePageUncaught(st, f) ==
    IF f.parse = "raises"
    THEN [st EXCEPT !.i = @ + 1, !.out = [kind |-> "raised", rows |-> <<>>]]
    ELSE IF f.parse = "none" THEN [st EXCEPT !.i = @ + 1]
    ELSE [st EXCEPT !.i = @ + 1, !.result = Append(@, Frame(f.page))]

\* the body of the for loop for the file f: an exception of _parse_page is
\* logged and the file is left out, None is left out, a frame is appended
AfterParsePage(st, f) ==
    IF f.parse = "raises"
    THEN [st EXCEPT !.i = @ + 1, !.logged = Append(@, f.page)]
    ELSE IF f.parse = "none" THEN [st EXCEPT !.i = @ + 1]
    ELSE [st EXCEPT !.i = @ + 1, !.result = Append(@, Frame(f.page))]

\* pd.concat(result, ignore_index=True), pd.DataFrame() for an empty list
RECURSIVE Concat(_)
Concat(fr) == IF fr = <<>> THEN <<>> ELSE fr[1] \o Concat(Tail(fr))

\* one iteration of the for loop of _parse_data
ParsePage ==
    /\ parsing.out.kind = "none"
    /\ parsing.i < Len(arquivos)
    /\ parsing' = AfterParsePage(parsing, arquivos[parsing.i + 1])
    /\ UNCHANGED <<cfg, call, life, source, expansions, df_copy, novo_df, arquivos>>

\* the end of _parse_data: the frames are concatenated and returned
ParseReturn ==
    /\ parsing.out.kind = "none"
    /\ parsing.i = Len(arquivos)
    /\ parsing' = [parsing EXCEPT
                     !.out = [kind |-> "returned", rows |-> Concat(parsing.result)]]
    /\ UNCHANGED <<cfg, call, life, source, expansions, df_copy, novo_df, arquivos>>

-----------------------------------------------------------------------------
(* The specifications.                                                     *)

\* the state of a call that has not started
InitCall ==
    /\ pc = "idle"
    /\ it = 0
    /\ dfs = {}
    /\ attempt = 0
    /\ requests = 0
    /\ sleeps = <<>>
    /\ responses = <<>>
    /\ outcome = Pending
    /\ contagem = NotCalled
    /\ n_pags = 0
    /\ total_pages = <<>>
    /\ idx = 0
    /\ dir_exists = FALSE
    /\ dirs = {}
    /\ stamped = 0
    /\ driver = "closed"
    /\ files = {}
    /\ trace = <<>>
    /\ last = NoLast
    /\ result = Running
    /\ session = NoSession
    /\ espera = NoEspera

NoSource ==
    [kind |-> "none", tree |-> NoTree, tokens |-> <<>>, parens |-> "needed",
     spacing |-> "tight", then |-> "once"]

\* no function of utils.py is called
NoUtil ==
    /\ source = NoSource
    /\ expansions = <<>>
    /\ df_copy = <<>>
    /\ novo_df = NoTable
    /\ arquivos = <<>>
    /\ parsing = NotParsed

\* one harvest of any HTTP scraper, with any attempt budget and any page
\* range, the scraper as its constructor leaves it (debug is True)
Init ==
    /\ scraper \in Scrapers
    /\ max_retries \in 1..MaxBudget
    /\ max_pages = MaxPagesDefault
    /\ debug = TRUE
    /\ kwargs = UsualKwargs
    /\ paginas = PUnset
    /\ InitCall
    /\ NoUtil
    /\ nyt = NoNyt

Next ==
    \/ Raspar
    \/ RequestWithRetryStep
    \/ GetNPags
    \/ ComputeRange
    \/ FetchPage
    \/ ParseAndReturn

Spec == Init /\ [][Next]_vars

\* the page ranges of the calls explored by SpecCalls
CallPaginas == {PNone, PRange(2, 4, 1)}

\* the calls of raspar on one HTTP scraper with a budget of one attempt: any
\* keyword arguments, debug set or not
InitCalls ==
    /\ scraper = "CAMARA"
    /\ max_retries = 1
    /\ max_pages = MaxPagesDefault
    /\ debug \in BOOLEAN
    /\ kwargs \in KwargsValues
    /\ paginas \in CallPaginas
    /\ InitCall
    /\ NoUtil
    /\ nyt = NoNyt

SpecCalls == InitCalls /\ [][Next]_vars

\* the calls of raspar on one HTTP scraper with dates in any of the
\* recognised parameters
InitDates ==
    /\ scraper = "CAMARA"
    /\ max_retries = 1
    /\ max_pages = MaxPagesDefault
    /\ debug = TRUE
    /\ kwargs \in DateKwargsValues
    /\ paginas = PNone
    /\ InitCall
    /\ NoUtil
    /\ nyt = NoNyt

SpecDates == InitDates /\ [][Next]_vars

\* the keyword arguments of a call on a browser scraper
BrowserKwargsValues ==
    {kw \in KwargsValues : Len(list_keys(kw)) = 0}
      \cup {<<Param("ano", IntValue(23)), Param("assunto", StrValue(<<"y">>)),
              Param("q", StrValue(<<"x">>))>>}

InitBrowser ==
    /\ scraper \in BrowserScrapers
    /\ max_retries = DefaultMaxRetries
    /\ max_pages \in MaxPagesValues
    /\ debug \in BOOLEAN
    /\ kwargs \in BrowserKwargsValues
    /\ paginas = PNone
    /\ InitCall
    /\ NoUtil
    /\ nyt = NoNyt

NextBrowser ==
    \/ RasparBrowser
    \/ BrowserSearch
    \/ BrowserNextPage
    \/ BrowserFinish

SpecBrowser == InitBrowser /\ [][NextBrowser]_vars

\* no scraper is harvesting
NoHarvest ==
    /\ scraper = "CAMARA"
    /\ max_retries = DefaultMaxRetries
    /\ max_pages = MaxPagesDefault
    /\ debug = TRUE
    /\ kwargs = UsualKwargs
    /\ paginas = PUnset
    /\ InitCall
    /\ nyt = NoNyt

\* the calls of expand on one expression: any well-formed expression of up
\* to MaxTerms terms and any sequence of up to MaxTokens tokens
InitExpand ==
    /\ NoHarvest
    /\ source \in Sources
    /\ expansions = <<>>
    /\ df_copy = <<>>
    /\ novo_df = NoTable
    /\ arquivos = <<>>
    /\ parsing = NotParsed

NextExpand == Expand

SpecExpand == InitExpand /\ [][NextExpand]_vars

\* one call of remove_duplicates on any table of up to MaxRows rows
InitTable ==
    /\ NoHarvest
    /\ source = NoSource
    /\ expansions = <<>>
    /\ df_copy \in Tables
    /\ novo_df = NoTable
    /\ arquivos = <<>>
    /\ parsing = NotParsed

NextTable == RemoveDuplicates

SpecTable == InitTable /\ [][NextTable]_vars

\* one call of _parse_data on a session directory of up to MaxFiles files
InitParse ==
    /\ NoHarvest
    /\ source = NoSource
    /\ expansions = <<>>
    /\ df_copy = <<>>
    /\ novo_df = NoTable
    /\ arquivos \in Listings
    /\ parsing = NotParsed

NextParse ==
    \/ ParsePage
    \/ ParseReturn

SpecParse == InitParse /\ [][NextParse]_vars

\* one harvest of a browser scraper, handle by handle
NextSession ==
    \/ RasparSession
    \/ AguardarCloudflare
    \/ SessionSearch
    \/ SessionNextPage
    \/ SessionFinish

SpecSession == InitBrowser /\ [][NextSession]_vars

\* the same harvest where the event loop keeps running the coroutine of the
\* wait: an iteration that can be taken is taken
SpecWait == InitBrowser /\ [][NextSession]_vars /\ WF_vars(AguardarCloudflare)

\* one call of _download_data on ScraperNYT: any cap on the results and any
\* page range
InitNyt ==
    /\ scraper = "NYT"
    /\ max_retries = DefaultMaxRetries
    /\ max_pages = MaxPagesDefault
    /\ debug = TRUE
    /\ kwargs = UsualKwargs
    /\ paginas \in NytPaginas
    /\ InitCall
    /\ NoUtil
    /\ nyt \in {NytIdle(m) : m \in MaxResultadosValues}

NextNyt ==
    \/ NytProbe
    \/ NytPage

SpecNyt == InitNyt /\ [][NextNyt]_vars

-----------------------------------------------------------------------------
(* Properties.                                                             *)

\* the pages the fetch loop has requested so far, in order
RequestedPages ==
    LET reqs == SelectSeq(trace, LAMBDA e : e.ev = "request")
    IN [i \in 1..Len(reqs) |-> reqs[i].arg]

\* number of requests the fetch loop issued for page pag
RequestsFor(pag) ==
    Cardinality({i \in 1..Len(trace) :
                    trace[i].ev = "request" /\ trace[i].arg = pag})

HasFile(pag) == \E f \in files : f.page = pag

InLoop == pc \in {"fetch", "downloaded", "done"}

\* C1: in the fetch loop a page's failure (5xx answer, exception while
\* requesting or writing) is confined to that page: the loop goes on to every
\* later page of the range, in order, and the harvest returns its storage
\* directory instead of raising.
C1_FailureConfinedToPage ==
    dir_exists =>
        /\ InLoop
        /\ result.kind # "raised"
        /\ idx <= Len(total_pages)
        /\ RequestedPages = SubSeq(total_pages, 1, idx)
        /\ (last.kind \in {"skipped", "exception"} /\ idx < Len(total_pages)
              => pc = "fetch")
        /\ (pc # "fetch" => idx = Len(total_pages))

\* C1 witness: a three-page harvest in which no page could be saved (the
\* last one answered 5xx) has requested all three pages and returned.
C1_Witness ==
    /\ pc = "done"
    /\ Len(total_pages) = 3
    /\ Len(RequestedPages) = 3
    /\ files = {}
    /\ last.kind = "skipped"
    /\ result.kind = "returned"
    /\ dir_exists

C3_NoFileForRateLimitedPage ==
    (last.kind # "none" /\ last.resp.status = 429) => ~HasFile(last.page)

ProbeExhausted == outcome.kind = "raise" /\ outcome.status >= 429

\* C4 (as claimed): when the page-count probe exhausts its retries, whatever
\* Retry-After the source sent, no page is fetched and raspar returns an
\* empty table without raising.
C4_ProbeExhaustedGivesEmptyTable ==
    ProbeExhausted =>
        /\ result.kind # "raised"
        /\ trace = <<>>
        /\ (pc = "done" => result = ReturnedTable({}))

ProbeFailedOtherwise ==
    \/ outcome.kind = "raise" /\ outcome.exc = "ConnectionError"
    \/ contagem.kind = "raise"

\* C5 (as claimed): a network failure of the probe request, a 4xx probe
\* answer rejected by the page-count extractor, or a missing count degrade
\* the harvest to an empty table; raspar does not raise.
C5_ProbeErrorGivesEmptyTable ==
    ProbeFailedOtherwise =>
        /\ result.kind # "raised"
        /\ (pc = "done" => result = ReturnedTable({}))

\* the seconds a Retry-After value asks for, when it is a count of seconds
HintSeconds(h) ==
    CASE h = Header(<<"3", "0">>) -> SomeInt(30)
      [] h = Header(<<"0">>) -> SomeInt(0)
      [] OTHER -> NoneInt

\* C6: in _request_with_retry the wait after the k-th failed attempt is the
\* Retry-After hint in seconds for a 429 that carries one, and 2^(k-1)
\* seconds for a 429 without such a hint or for a 5xx.
C6_BackoffSchedule ==
    \A k \in 1..Len(sleeps) :
        LET r == responses[k]
            hint == HintSeconds(r.retry_after)
        IN sleeps[k] = IF r.status = 429 /\ ~hint.isNone
                       THEN hint.n
                       ELSE 2 ^ (k - 1)

\* C6 witness: a 429 with Retry-After: 30 was waited 30 s, then a 5xx on the
\* second attempt was waited 2 s.
C6_Witness ==
    /\ max_retries = DefaultMaxRetries
    /\ Len(responses) >= 2
    /\ responses[1].status = 429
    /\ responses[1].retry_after = Header(<<"3", "0">>)
    /\ responses[2].status \in ServerStatuses
    /\ sleeps = <<30, 2>>

\* C7 (as claimed): whatever mix of 429 and 5xx answers arrives,
\* _request_with_retry issues at most max_retries requests, sleeps at most
\* max_retries - 1 times, and ends by returning a response or by raising
\* RateLimitError or APIError.
C7_BoundedAttempts ==
    outcome.exc # "ConnectionError" =>
        /\ requests <= max_retries
        /\ Len(sleeps) <= max_retries - 1
        /\ (pc = "probed" =>
              \/ outcome.kind = "return"
              \/ outcome.exc \in {"RateLimitError", "APIError"})

NonRetryable(st) == st < 400 \/ (st \in 400..499 /\ st # 429)

\* C8: a response with status below 400, or a 4xx other than 429, is returned
\* by _request_with_retry at once: no request and no sleep follows it, so
\* when it answers the first request there was exactly one request and no
\* sleep, whatever the budget.
C8_NoRetryOfFinalAnswers ==
    \A k \in 1..Len(responses) :
        NonRetryable(responses[k].status) =>
            /\ k = Len(responses)
            /\ pc = "probed"
            /\ outcome = Returned(responses[k])
            /\ requests = k
            /\ Len(sleeps) = k - 1

\* C8 witness: with the default budget of 3 a 404 answered the first request
\* and was returned after one request and no sleep.
C8_Witness ==
    /\ pc = "probed"
    /\ max_retries = DefaultMaxRetries
    /\ Len(responses) = 1
    /\ responses[1].status = 404
    /\ outcome.kind = "return"
    /\ requests = 1
    /\ sleeps = <<>>

\* C9 (as claimed): when the budget is exhausted on a 429, RateLimitError is
\* raised and carries the last Retry-After hint, or None when there was
\* none, for every Retry-After value.
C9_RateLimitErrorCarriesHint ==
    (pc = "probed" /\ outcome.kind = "raise" /\ outcome.status = 429) =>
        /\ outcome.exc = "RateLimitError"
        /\ outcome.retry_after =
              HintSeconds(responses[Len(responses)].retry_after)

NoPagesReported ==
    /\ pc \in {"fetch", "downloaded", "done"}
    /\ contagem.kind = "None" \/ (contagem.kind = "int" /\ contagem.n <= 0)
    /\ paginas.kind \in {"None", "range"}

\* C10 (as claimed): when the probe reports a page count that is zero, None
\* or non-positive, then for any requested subrange the fetch loop performs
\* no fetch and the harvest returns an existing, empty storage directory.
C10_NoPagesNoFetch ==
    NoPagesReported =>
        /\ trace = <<>>
        /\ (pc \in {"downloaded", "done"} => dir_exists /\ files = {})

RequestedRange == paginas.kind \in {"None", "range"}

\* C11 (as claimed): for every requested subrange (any start, stop and step)
\* and every page count, no page the fetch loop requests exceeds the page
\* count; range(1, 1000) against 5 pages gives exactly the pages 1..5.
C11_NoPageBeyondTotal ==
    (InLoop /\ RequestedRange) =>
        /\ \A i \in 1..Len(RequestedPages) : RequestedPages[i] <= n_pags
        /\ (paginas = PRange(1, 1000, 1) /\ n_pags = 5
              => total_pages = <<1, 2, 3, 4, 5>>)

EmptyOrNotIterable ==
    \/ paginas.kind = "int"
    \/ /\ paginas.kind = "range"
       /\ RangeLen(paginas.start, paginas.stop, paginas.step) = 0

\* C12 (as claimed): when the requested page range is empty or is not
\* iterable (a plain integer), the harvest falls back to an empty range and
\* completes with no page fetch instead of raising.
C12_BadRangeFallsBackToEmpty ==
    EmptyOrNotIterable =>
        /\ result.kind # "raised"
        /\ pc \in {"downloaded", "done"}
        /\ trace = <<>>

Descending == paginas.kind = "range" /\ paginas.step < 0

C14_RequestPrecededByOneSleep ==
    \A i \in 1..Len(trace) :
        trace[i].ev = "request" =>
            /\ i > 1
            /\ trace[i - 1] = [ev |-> "sleep", arg |-> SleepTime]
            /\ (i > 2 => trace[i - 2].ev = "request")

\* C14 witness: a harvest of three pages has returned after the events
\* sleep, request 1, sleep, request 2, sleep, request 3.
C14_Witness ==
    /\ pc = "done"
    /\ Len(trace) = 6
    /\ trace[1].ev = "sleep"
    /\ RequestedPages = <<1, 2, 3>>

ListCount == Len(list_keys(kwargs))

\* no request was issued and no session directory made by the call
NothingIssued ==
    /\ requests = 0
    /\ outcome = Pending
    /\ trace = <<>>
    /\ it = 0
    /\ dirs = {}

ListVals == list_keys(kwargs)[1].vals

ProbeRaised ==
    pc = "raised" /\ (outcome.kind = "raise" \/ contagem.kind = "raise")

\* C16 (as claimed): for one list-valued parameter [v1..vn] raspar runs
\* exactly n harvests, in the caller's order; the rows of harvest i carry
\* the provenance str(vi) and the call returns their concatenation, whatever
\* the number of rows of each harvest (no probe having raised).
C16_FanOutHarvestsEveryValue ==
    (ListCount = 1 /\ ValidarParametros(kwargs) /\ pc \in {"done", "raised"}
       /\ ~ProbeRaised) =>
        /\ result.kind = "returned"
        /\ it = Len(ListVals)
        /\ \A row \in result.table :
             /\ row.harvest \in 1..Len(ListVals)
             /\ row.termo_busca = Termo(PyStr(ListVals[row.harvest]))

\* the sources that report a count of results, with their page sizes
CountingScrapers == {"CAMARA", "CNJ", "FOLHA"}

PageSize(s) ==
    CASE s = "CAMARA" -> CamaraPageSize
      [] s = "CNJ" -> CnjPageSize
      [] s = "FOLHA" -> FolhaPageSize

\* ceil(c / s): the least k with k * s >= c
Ceil(c, s) == CHOOSE k \in 0..c : k * s >= c /\ (k = 0 \/ (k - 1) * s < c)

ProbeCounted ==
    /\ pc = "probed"
    /\ scraper \in CountingScrapers
    /\ outcome.kind = "return"
    /\ outcome.status = 200
    /\ responses[Len(responses)].body.kind = "count"

\* C17 (as claimed): for every source's page-count extractor, a source of
\* page size s that reports c results makes the harvest count ceil(c / s)
\* pages, and none when c = 0.
C17_PagesAreCeilOfCount ==
    [][ProbeCounted =>
          /\ pc' = "range"
          /\ n_pags' = Ceil(responses[Len(responses)].body.n, PageSize(scraper))
      ]_vars

RecognisedNames == {"pesquisa", "termo", "q", "query"}

Recognised(i) == kwargs[i].name \in RecognisedNames

\* C18: with no list-valued parameter raspar runs exactly one harvest; when
\* a recognised search-term parameter (pesquisa, termo, q, query) is among
\* the parameters every returned row carries the string value of the first
\* of them as provenance, otherwise no row carries a provenance.
C18_SingleHarvestProvenance ==
    ListCount = 0 =>
        /\ it = IF pc = "done" THEN 1 ELSE 0
        /\ (pc = "done" =>
              /\ result.kind = "returned"
              /\ \A row \in result.table :
                   /\ row.harvest = 1
                   /\ IF \E i \in 1..Len(kwargs) : Recognised(i)
                      THEN \E i \in 1..Len(kwargs) :
                              /\ Recognised(i)
                              /\ \A j \in 1..(i - 1) : ~Recognised(j)
                              /\ row.termo_busca = Termo(PyStr(kwargs[i].vals[1]))
                      ELSE row.termo_busca = NoTermo)

\* C18 witness: a call with ano=23, q='y', pesquisa='x' returned rows of two
\* pages, all with provenance 'y'.
C18_Witness ==
    /\ pc = "done"
    /\ ListCount = 0
    /\ Len(kwargs) = 3
    /\ it = 1
    /\ Cardinality(result.table) = 2
    /\ \A row \in result.table : row.termo_busca = Termo(<<"y">>)

\* C19: with debug False, in a run over a list of values the session
\* directory of a harvest is removed right after its rows are extracted and
\* before the next harvest starts: at every moment at most one session
\* directory of the call exists, that of the harvest under way, and none
\* exists while a harvest is at its probe or once the call has returned.
C19_AtMostOneSessionDir ==
    debug = FALSE =>
        /\ Cardinality(dirs) <= 1
        /\ dirs \subseteq {it + 1}
        /\ (pc \in {"probe", "probed", "range", "done"} => dirs = {})

\* C19 witness: with debug False the second of two harvests is fetching; the
\* first one's rows are kept and its directory is gone.
C19_Witness ==
    /\ debug = FALSE
    /\ ListCount = 1
    /\ it = 1
    /\ pc = "fetch"
    /\ dfs # {}
    /\ dirs = {2}

\* C20 (as claimed): with debug False, when a harvest of any variant returns
\* its table, whatever the outcome (zero pages included), no session
\* directory made by the call exists.
C20_NoDirAfterReturn ==
    (debug = FALSE /\ pc = "done" /\ result.kind = "returned") =>
        /\ dirs = {}
        /\ ~dir_exists

\* C21 (as claimed): every harvest session gets its own storage directory:
\* each call of _create_download_dir on one scraper succeeds, however close
\* in time to the previous one, and the directory it makes is distinct from
\* every session directory that still exists.
C21_EverySessionGetsItsOwnDir ==
    /\ result # RaisedOut("FileExistsError")
    /\ (pc = "range" => stamped \notin dirs)

\* the term combinations of an expression tree: a term stands for itself,
\* E for every left combination followed by a blank and a right one, OU for
\* the combinations of either side
RECURSIVE Combinations(_)
Combinations(t) ==
    IF t.op = "term" THEN {<<t.term>>}
    ELSE IF t.op = "E"
    THEN {l \o <<" ">> \o r :
            l \in Combinations(t.left), r \in Combinations(t.right)}
    ELSE Combinations(t.left) \cup Combinations(t.right)

\* the list is in ascending order and holds no string twice
Ascending(l) == \A i, j \in 1..Len(l) : i < j => StrLess(l[i], l[j])

\* the tree whose expression the k-th call of expand was given
TreeOfCall(k) ==
    IF k = 1 THEN source.tree ELSE Rewritten(source.then, source.tree)

\* C22: for every well-formed expression over terms (words delimited by
\* whitespace), E, OU and parentheses, expand returns exactly the sorted,
\* duplicate-free list of the combinations obtained by evaluating it with E
\* binding tighter than OU, E as the product that joins the left term and
\* the right term with one blank, and OU as the concatenation.
C22_ExpandEvaluatesExpression ==
    \A k \in 1..Len(expansions) :
        (source.kind = "tree" /\ (k = 1 \/ source.then \in Laws)) =>
            /\ expansions[k].out.exc = ""
            /\ Range(expansions[k].out.list) = Combinations(TreeOfCall(k))
            /\ Ascending(expansions[k].out.list)

\* C22 witness: "a OU b E a" was expanded to ['a', 'b a'].
C22_Witness ==
    /\ source.kind = "tree"
    /\ Len(expansions) = 1
    /\ expansions[1].expression =
         <<"a", " ", "O", "U", " ", "b", " ", "E", " ", "a">>
    /\ expansions[1].out.list = <<<<"a">>, <<"b", " ", "a">>>>

\* the expression is one word or several words: no operator, no parenthesis
OperatorFree ==
    /\ source.kind = "raw"
    /\ Len(source.tokens) >= 1
    /\ \A i \in 1..Len(source.tokens) : source.tokens[i] \in Terms

\* C23 (as claimed): for every expression that contains no operator, one
\* word or several words separated by whitespace, expand returns exactly
\* the one-element list [expression.strip()].
C23_OperatorFreeIsOneTerm ==
    (OperatorFree /\ Len(expansions) >= 1) =>
        /\ expansions[1].out.exc = ""
        /\ expansions[1].out.list = <<Strip(expansions[1].expression)>>

\* C24 (as claimed): expand is idempotent on its own output: after the
\* strings of expand(e) are joined with ' OU ' and expanded again, the
\* result is the same set as expand(e).
C24_IdempotentOnOwnOutput ==
    (source.kind = "tree" /\ source.then = "rejoin" /\ Len(expansions) = 2) =>
        /\ expansions[2].out.exc = ""
        /\ Range(expansions[2].out.list) = Range(expansions[1].out.list)

\* C25: expand is commutative under OU and associative for E and for OU:
\* 'A OU B' and 'B OU A' expand to identical sorted lists, and so do
\* '(A op B) op C' and 'A op (B op C)' for op E and for op OU, for all
\* sub-expressions A, B, C.
C25_CommutativeAndAssociative ==
    (source.then \in {"commute", "regroup"} /\ Len(expansions) = 2) =>
        /\ expansions[1].out.exc = ""
        /\ expansions[2].out.exc = ""
        /\ expansions[2].out.list = expansions[1].out.list

\* C25 witness: "b OU a E b" and then "a E b OU b" were expanded, both to
\* ['a b', 'b'].
C25_Witness ==
    /\ source.then = "commute"
    /\ Len(expansions) = 2
    /\ expansions[1].expression =
         <<"b", " ", "O", "U", " ", "a", " ", "E", " ", "b">>
    /\ expansions[2].expression =
         <<"a", " ", "E", " ", "b", " ", "O", "U", " ", "b">>
    /\ expansions[2].out.list = <<<<"a", " ", "b">>, <<"b">>>>

\* C26: expand distributes E over OU: '(X E (Y OU Z))' expands to the same
\* sorted set as '(X E Y) OU (X E Z)', for all sub-expressions X, Y, Z.
C26_AndDistributesOverOr ==
    (source.then = "distribute" /\ Len(expansions) = 2) =>
        /\ expansions[1].out.exc = ""
        /\ expansions[2].out.exc = ""
        /\ expansions[2].out.list = expansions[1].out.list

\* C26 witness: "a E (b OU a)" and then "a E b OU a E a" were expanded,
\* both to ['a a', 'a b'].
C26_Witness ==
    /\ source.then = "distribute"
    /\ Len(expansions) = 2
    /\ expansions[1].expression =
         <<"a", " ", "E", " ", "(", "b", " ", "O", "U", " ", "a", ")">>
    /\ expansions[2].expression =
         <<"a", " ", "E", " ", "b", " ", "O", "U", " ", "a", " ", "E", " ",
           "a">>
    /\ expansions[2].out.list = <<<<"a", " ", "a">>, <<"a", " ", "b">>>>

\* C27 (as claimed): expand never returns a silent partial result: whenever
\* it returns a list, the parse consumed every token of the input.
C27_ReturnsOnlyAfterFullParse ==
    \A k \in 1..Len(expansions) :
        expansions[k].out.exc = "" =>
            expansions[k].out.consumed = expansions[k].out.tokens

\* the rows of the table t whose link is l, by position
RowsOf(t, l) == {i \in 1..Len(t) : t[i].link = l}

\* the link values of the input: a missing or empty link is no key value
InputLinks == {df_copy[i].link : i \in 1..Len(df_copy)} \ {NA, Str(<<>>)}

\* C28: remove_duplicates returns exactly one row per distinct link value
\* of its input and no other row with a link, and every input row whose
\* link occurs only once is passed through with all its field values
\* unchanged.
C28_OneRowPerLink ==
    novo_df.kind = "returned" =>
        /\ \A l \in InputLinks : Cardinality(RowsOf(novo_df.rows, l)) = 1
        /\ \A j \in 1..Len(novo_df.rows) :
             novo_df.rows[j].link \in InputLinks \cup {NA, Str(<<>>)}
        /\ \A i \in 1..Len(df_copy) :
             RowsOf(df_copy, df_copy[i].link) = {i} =>
                 \E j \in 1..Len(novo_df.rows) : novo_df.rows[j] = df_copy[i]

\* C28 witness: of three rows with the links 'b', 'a', 'b' two rows were
\* returned, the row of 'a' as it was and one row for 'b'.
C28_Witness ==
    /\ novo_df.kind = "returned"
    /\ Len(df_copy) = 3
    /\ df_copy[1].link = Str(<<"b">>)
    /\ df_copy[2].link = Str(<<"a">>)
    /\ df_copy[3].link = Str(<<"b">>)
    /\ Len(novo_df.rows) = 2
    /\ novo_df.rows[1] = df_copy[2]
    /\ novo_df.rows[2].link = Str(<<"b">>)

\* the provenances of the input rows of link l, in input order
RECURSIVE TermosFrom(_, _)
TermosFrom(i, l) ==
    IF i > Len(df_copy) THEN <<>>
    ELSE IF df_copy[i].link = l
    THEN <<df_copy[i].termo_busca.v>> \o TermosFrom(i + 1, l)
    ELSE TermosFrom(i + 1, l)

\* the links two input rows or more share
SharedLinks == {l \in InputLinks : Cardinality(RowsOf(df_copy, l)) >= 2}

\* C29: for rows sharing a link, the provenance of the merged row is the
\* provenances of all contributing rows joined with ', ' in input order,
\* repeated values kept: 'a' and 'b' merge to 'a, b', 'a' and 'a' to
\* 'a, a'.
C29_ProvenanceJoinedInInputOrder ==
    novo_df.kind = "returned" =>
        \A l \in SharedLinks :
            \A j \in RowsOf(novo_df.rows, l) :
                novo_df.rows[j].termo_busca =
                    Str(Join(TermosFrom(1, l), <<",", " ">>))

\* C29 witness: three rows of link 'a' with the provenances 'b', 'a', 'a'
\* were merged into one row of provenance 'b, a, a'.
C29_Witness ==
    /\ novo_df.kind = "returned"
    /\ Len(df_copy) = 3
    /\ \A i \in 1..3 : df_copy[i].link = Str(<<"a">>)
    /\ Len(novo_df.rows) = 1
    /\ novo_df.rows[1].termo_busca =
         Str(<<"b", ",", " ", "a", ",", " ", "a">>)

\* C30 (as claimed): for rows sharing a link, every column other than link
\* and termo_busca takes in the merged row the value held by the first row
\* encountered for that link, a missing value included; the values of
\* later rows are discarded.
C30_OtherColumnsFromFirstRow ==
    novo_df.kind = "returned" =>
        \A l \in SharedLinks :
            \A j \in RowsOf(novo_df.rows, l) :
                \E i \in RowsOf(df_copy, l) :
                    /\ \A k \in RowsOf(df_copy, l) : i <= k
                    /\ novo_df.rows[j].titulo = df_copy[i].titulo

\* the input rows whose link is empty or missing, by position
Keyless == {i \in 1..Len(df_copy) : df_copy[i].link \in {NA, Str(<<>>)}}

\* C31 (as claimed): rows whose link is empty or missing are never merged,
\* neither with each other nor into a group: n such input rows give n
\* output rows with an empty or missing link, each one an input row with
\* its fields unchanged.
C31_KeylessRowsPassThrough ==
    novo_df.kind = "returned" =>
        LET out == {j \in 1..Len(novo_df.rows) :
                      novo_df.rows[j].link \in {NA, Str(<<>>)}}
        IN /\ Cardinality(out) = Cardinality(Keyless)
           /\ \A i \in Keyless :
                \E j \in out : novo_df.rows[j] = df_copy[i]

\* the rows of the table _parse_data returned
ParsedRows == {parsing.out.rows[j] : j \in 1..Len(parsing.out.rows)}

\* C32: if _parse_page raises on one page file, only the rows of that page
\* are omitted: _parse_data never raises because of a page, and the table
\* it returns holds, once each, the rows of every file whose parse returned
\* a frame, and no other row.
C32_ParseFailureOmitsOnlyThatPage ==
    /\ parsing.out.kind # "raised"
    /\ parsing.out.kind = "returned" =>
         /\ ParsedRows =
              UNION {Range(Frame(arquivos[k].page)) :
                       k \in {n \in 1..Len(arquivos) : arquivos[n].parse = "frame"}}
         /\ Len(parsing.out.rows) = Cardinality(ParsedRows)
         /\ \A k \in 1..Len(arquivos) :
              arquivos[k].parse = "raises" <=>
                  \E n \in 1..Len(parsing.logged) :
                      parsing.logged[n] = arquivos[k].page

\* C32 witness: of three page files the parse of one raised, and the table
\* returned holds the four rows of the two others.
C32_Witness ==
    /\ Len(arquivos) = 3
    /\ Len(parsing.logged) = 1
    /\ parsing.out.kind = "returned"
    /\ Len(parsing.out.rows) = 4

\* C40 (as claimed): the table of a harvest keeps page order: every row
\* parsed from page p precedes every row parsed from page q whenever p < q,
\* whatever order the session directory lists the page files in.
C40_TableKeepsPageOrder ==
    parsing.out.kind = "returned" =>
        \A i, j \in 1..Len(parsing.out.rows) :
            parsing.out.rows[i].page < parsing.out.rows[j].page => i < j

\* the latest iteration of the fetch loop ended in an exception of the
\* transport
TransportFailed == last.kind = "exception" /\ last.exc = "ConnectionError"

\* C33: a network-level failure (an exception from the transport) while a
\* page is fetched in the fetch loop is not retried: one request was issued
\* for the page, no file was written for it, and the loop goes on with the
\* next page of the range instead of raising.
C33_TransportFailureNotRetried ==
    (TransportFailed /\ InLoop) =>
        /\ RequestsFor(last.page) = 1
        /\ ~HasFile(last.page)
        /\ last.page = total_pages[idx]
        /\ result.kind # "raised"
        /\ (idx < Len(total_pages) <=> pc = "fetch")

\* C33 witness: the first of three pages failed in the transport; it was
\* requested once, no file exists and the loop is at the second page.
C33_Witness ==
    /\ TransportFailed
    /\ pc = "fetch"
    /\ idx = 1
    /\ Len(total_pages) = 3
    /\ RequestsFor(total_pages[1]) = 1
    /\ files = {}

\* the wait for the challenge is running
WaitRunning == espera.state = "waiting"

\* C34: the wait for the anti-bot challenge always terminates: it returns
\* once the cookie or the real page is seen, and else raises BrowserError
\* once cloudflare_timeout seconds have elapsed; that error ends the harvest:
\* raspar raises, no table is returned and nothing more is done.
C34_CloudflareWaitTerminates ==
    /\ WaitRunning ~> ~WaitRunning
    /\ [][(WaitRunning /\ espera'.state = "returned")
             => /\ Seen(espera.clears, espera.elapsed) \in {"cookie", "content"}
                /\ pc' = "search"
                /\ result' = Running]_vars
    /\ [][(WaitRunning /\ Seen(espera.clears, espera.elapsed) = "challenge")
             => \/ espera'.elapsed > espera.elapsed
                \/ /\ espera.elapsed >= CloudflareTimeout
                   /\ espera'.state = "raised"
                   /\ result' = RaisedOut("BrowserError")
                   /\ pc' = "raised"]_vars
    /\ [][result = RaisedOut("BrowserError")
             => /\ result' = result
                /\ pc' = "raised"]_vars
    /\ []((espera.state = "raised" /\ espera.clears.how # "error")
             => /\ espera.elapsed >= CloudflareTimeout
                /\ result = RaisedOut("BrowserError")
                /\ pc = "raised")

\* C34 witness: the challenge never cleared, the wait ran for
\* cloudflare_timeout seconds and raspar raised BrowserError.
C34_Witness ==
    /\ espera.state = "raised"
    /\ espera.clears.how = "never"
    /\ espera.elapsed >= CloudflareTimeout
    /\ result = RaisedOut("BrowserError")
    /\ pc = "raised"

\* raspar has returned or raised
Exited == pc \in {"done", "raised"}

\* C36: on every exit path of a browser-driven harvest (return, zero pages,
\* an exception at any step, an exception while one of the resources is
\* closed) every handle is None when raspar returns or raises, and every
\* resource that was opened has been closed: none is left open, and only one
\* whose own close raised is not closed.
C36_EveryHandleClosedOnExit ==
    /\ Exited =>
         \A h \in HandleNames :
            /\ session.handle[h] = "None"
            /\ session.resource[h] \in {"unopened", "closed", "close_raised"}
    /\ \A h \in HandleNames :
         session.resource[h] = "open" => session.handle[h] = "set"

\* C36 witness: the harvest raised, the close of the page raised too, and
\* the context, the browser and Playwright were closed all the same.
C36_Witness ==
    /\ pc = "raised"
    /\ session.resource["page"] = "close_raised"
    /\ session.resource["context"] = "closed"
    /\ session.resource["browser"] = "closed"
    /\ session.resource["playwright"] = "closed"
    /\ \A h \in HandleNames : session.handle[h] = "None"

\* the date given for parameter k is not a date: validar_data rejects it
InvalidDate(kw, k) == HasKey(kw, k) /\ ~DateOf(kw, k).ok

\* both dates of the pair are dates and the first is later than the second
StartAfterEnd(kw, pr) ==
    /\ HasKey(kw, pr[1]) /\ DateOf(kw, pr[1]).ok /\ ~DateOf(kw, pr[1]).none
    /\ HasKey(kw, pr[2]) /\ DateOf(kw, pr[2]).ok /\ ~DateOf(kw, pr[2]).none
    /\ After(DateOf(kw, pr[1]).ymd, DateOf(kw, pr[2]).ymd)

\* C35: raspar called with an invalid date, or with a start date later than
\* the end date, in any of the recognised pairs of date parameters, raises
\* ValidationError before any network request is issued and is not retried.
C35_BadDatesRaiseBeforeAnyRequest ==
    (/\ pc # "idle"
     /\ \E pr \in data_params :
           \/ InvalidDate(kwargs, pr[1])
           \/ InvalidDate(kwargs, pr[2])
           \/ StartAfterEnd(kwargs, pr))
        => /\ result = RaisedOut("ValidationError")
           /\ pc = "raised"
           /\ requests = 0
           /\ trace = <<>>

\* the pages whose file is in the session directory
SavedPages == {f.page : f \in files}

\* raspar raised after the first idx pages had been saved: the navigation to
\* a later page or its save failed
FailedAfterSaving == pc = "raised" /\ idx >= 1

\* C37: in a browser-driven harvest a failure while navigating to or saving
\* a later page does not lose the pages already saved: the harvest still
\* returns a table with the rows of every page saved before the failure.
C37_SavedPagesSurviveLaterFailure ==
    FailedAfterSaving =>
        /\ result.kind = "returned"
        /\ \A pag \in 1..idx : \E row \in result.table : row.page = pag

\* C38: in a browser-driven harvest the saved pages are always a contiguous
\* prefix 1..k of the result pages, with k at most min(total_pages,
\* _max_pages): a page is saved only by the loop, right after the page
\* before it, and once the navigation reports failure no page is saved or
\* attempted any more.
C38_SavedPagesAreAPrefix ==
    /\ [](/\ (SavedPages # {} => SavedPages = 1..idx)
          /\ idx <= n_pags
          /\ n_pags <= max_pages
          /\ \E t \in BrowserTotals \cup {0} : n_pags = IF t < max_pages THEN t ELSE max_pages)
    /\ [][SavedPages' # SavedPages =>
             \/ SavedPages' = {}
             \/ pc = "search" /\ SavedPages' = {1}
             \/ pc = "pages" /\ SavedPages' = SavedPages \cup {idx + 1}]_vars
    /\ [][pc = "saved" => (pc' = "done" /\ SavedPages' \subseteq SavedPages)]_vars

\* C38 witness: of three result pages two may be harvested; the navigation
\* from page 1 reported failure, page 1 alone is saved and the loop is over.
C38_Witness ==
    /\ pc = "saved"
    /\ max_pages = 2
    /\ n_pags = 2
    /\ idx = 1
    /\ SavedPages = {1}

\* the pages the caller asked for: those of the range, every page of the
\* search when no range is given
NytRequested ==
    IF paginas.kind = "range"
    THEN Range(PyRange(paginas.start, paginas.stop, paginas.step))
    ELSE 1..nyt.n_pags

\* C39: the cursor harvest of ScraperNYT never persists more than n_pags
\* pages (the page count of the probe after the max_resultados cap) and
\* never persists a page outside the requested subrange, whatever subrange
\* is requested; it stops as soon as the source reports no next page or
\* returns no cursor.  The formula states the two bounds on the pages
\* persisted.
C39_CursorHarvestStaysInRange ==
    /\ Cardinality(nyt.saved) <= nyt.n_pags
    /\ nyt.saved \subseteq NytRequested

=============================================================================
